---------------------------- MODULE Spec2Model ----------------------------
(***************************************************************************)
(* The logger pool of src/logger.py (TelegramLogger, ServiceLogger,        *)
(* LoggerConfig, PooledLogger) and the logger endpoints of src/api.py.     *)
(*                                                                         *)
(* Identities (uuid4 strings in the code) are the naturals 0, 1, 2, ...    *)
(* handed out in order and never handed out twice.  Time (datetime.now())  *)
(* is a clock `now` that never runs backwards.  None is the empty set and  *)
(* an optional value v is the set {v}.                                     *)
(***************************************************************************)
EXTENDS Naturals, Sequences, FiniteSets

\* ----------------------------------------------------------------- bounds
\* Queue(maxsize=10000) and ttl_seconds=3600 of the code, scaled down.
maxsize == 2
ttl_seconds == 1
\* The identities handed out, the clock, message_count and the records put,
\* by specification.
MaxIds == 2
MaxTime == 2
LogTime == 1
LogCount == 1
MaxPuts == 3
MaxLockPuts == 4
\* The files uploaded or imported.
MaxFiles == 2

\* ------------------------------------------------------------- data types
default_service_name == "enterprise-file-server"

ServiceNames == {default_service_name, "svc"}

Levels == <<"debug", "info", "warning", "error", "critical">>

LevelNames == {Levels[k] : k \in 1..Len(Levels)}

\* Arguments given to set_level: the five levels and a name that is none.
SetLevelNames == LevelNames \cup {"trace"}

\* The "level" field of a log request: the five names, one of them in
\* capitals as well, and a name that is none.
ApiLevelNames == SetLevelNames \cup {"ERROR"}

\* str.lower on those names.
lower(level) == IF level = "ERROR" THEN "error" ELSE level

Ids == 0..(MaxIds - 1)

None == {}

\* The message of a log request: left out, or given.
Messages == {"", "x"}

OptBool == {None, {TRUE}, {FALSE}}

VARIABLES
  _logger_pool,            \* logger_id -> ServiceLogger (its LoggerConfig)
  _pool_metadata,          \* logger_id -> PooledLogger (times and counter)
  _service_to_logger_id,   \* service name -> logger_id
  log_queue,               \* the records waiting for the worker
  _stats,                  \* sent and failed counters
  enable_ttl_cleanup,      \* TelegramLogger.enable_ttl_cleanup
  running,                 \* TelegramLogger.running
  now,                     \* datetime.now()
  nextId,                  \* the identities handed out so far are 0..nextId-1
  reaperPc,                \* where the cleanup thread stands
  expired_ids,             \* the cleanup thread's list of expired identities
  ret,                     \* the last call: its name and its result
  entry,                   \* the record _worker has taken and not yet sent
  calls,                   \* the leveled calls in progress, by caller
  server_running,          \* FileServer.running
  _lock,                   \* TelegramLogger._lock: the thread that holds it
  _files,                  \* FileRepository._files: the file ids it holds
  metadata,                \* file_id -> the FileMetadata object of that id
  tasks                    \* file_id -> its process_upload in the executor

vars == <<_logger_pool, _pool_metadata, _service_to_logger_id, log_queue,
          _stats, enable_ttl_cleanup, running, now, nextId, reaperPc,
          expired_ids, ret, entry, calls, server_running, _lock, _files,
          metadata, tasks>>

\* The callers that log at the same time.
Callers == {"a", "b"}

\* A caller that is in no call.
NoCall == [pc |-> "idle", logger_id |-> 0, level |-> "", service |-> "",
           seen |-> 0]

\* What only the worker, the callers and the server write.
Threads == <<entry, calls, server_running>>

\* What the file manager and its repository write.
Files == <<_files, metadata, tasks>>

\* ------------------------------------------------------------ LoggerConfig
\* LoggerConfig(...) as _create_pooled_logger builds it.
LoggerConfig(service_name, debug, warning, info, error, critical) ==
  [service_name |-> service_name, debug_enabled |-> debug,
   warning_enabled |-> warning, info_enabled |-> info,
   error_enabled |-> error, critical_enabled |-> critical]

is_level_enabled(config, level) ==
  CASE level = "debug" -> config.debug_enabled
    [] level = "info" -> config.info_enabled
    [] level = "warning" -> config.warning_enabled
    [] level = "error" -> config.error_enabled
    [] level = "critical" -> config.critical_enabled
    [] OTHER -> FALSE

\* PooledLogger(logger_id, config) created at time t.
PooledLogger(t) == [created_at |-> t, last_used |-> t, message_count |-> 0]

LogEntry(level, service) == [level |-> level, service |-> service]

\* A value of an optional argument: the old value when the argument is None.
Supplied(old, opt) == IF opt = None THEN old ELSE CHOOSE b \in opt : TRUE

Empty == [x \in {} |-> 0]

\* ----------------------------------------------------------- pool as value
\* The registry's maps, the queue and the identity counter as one value, so
\* that a handler that makes several calls is the composition of the calls.
Pool == [pool |-> _logger_pool, meta |-> _pool_metadata,
         alias |-> _service_to_logger_id, queue |-> log_queue,
         nextId |-> nextId]

Drop(f, k) == [x \in (DOMAIN f) \ {k} |-> f[x]]

Put(f, k, v) == [x \in (DOMAIN f) \cup {k} |-> IF x = k THEN v ELSE f[x]]

\* An identity generator that hands out the least identity not in the pool.
NewLoggerId_reused(P) ==
  CHOOSE k \in 0..P.nextId :
    k \notin DOMAIN P.pool /\ \A j \in 0..P.nextId :
                                 j \notin DOMAIN P.pool => k <= j

\* uuid.uuid4(): an identity no logger ever had.
NewLoggerId(P) == P.nextId

\* A creation that passes warning and info in each other's place.
create_pooled_logger_swapped(P, t, service_name, debug, warning, info) ==
  LET logger_id == NewLoggerId(P)
      config == LoggerConfig(service_name, debug, info, warning, TRUE, TRUE)
  IN [P EXCEPT !.pool = Put(@, logger_id, config),
               !.meta = Put(@, logger_id, PooledLogger(t)),
               !.nextId = logger_id + 1]

\* A creation that also points the service name at the new logger.
create_pooled_logger_aliases(P, t, service_name, debug, warning, info) ==
  [P EXCEPT
     !.pool = Put(@, NewLoggerId(P),
                  LoggerConfig(service_name, debug, warning, info,
                               TRUE, TRUE)),
     !.meta = Put(@, NewLoggerId(P), PooledLogger(t)),
     !.alias = Put(@, service_name, NewLoggerId(P)),
     !.nextId = @ + 1]

\* TelegramLogger._create_pooled_logger
create_pooled_logger(P, t, service_name, debug, warning, info) ==
  LET logger_id == NewLoggerId(P)
      config == LoggerConfig(service_name, debug, warning, info, TRUE, TRUE)
  IN [P EXCEPT !.pool = Put(@, logger_id, config),
               !.meta = Put(@, logger_id, PooledLogger(t)),
               !.nextId = logger_id + 1]

\* A lookup that leaves last_used as it is.
get_logger_no_touch(P, t, logger_id) == P

\* A lookup that stamps created_at as well.
get_logger_restamps(P, t, logger_id) ==
  IF logger_id \in DOMAIN P.meta
    THEN [P EXCEPT !.meta[logger_id].last_used = t,
                   !.meta[logger_id].created_at = t]
    ELSE P

\* TelegramLogger.get_logger: the lookup touches last_used.
get_logger(P, t, logger_id) ==
  IF logger_id \in DOMAIN P.meta
    THEN [P EXCEPT !.meta[logger_id].last_used = t]
    ELSE P

get_logger_result(P, logger_id) ==
  IF logger_id \in DOMAIN P.pool THEN {logger_id} ELSE None

\* A lookup of the configuration that answers with a default
\* configuration for an identity that is not in the pool.
get_logger_config_default(P, logger_id) ==
  IF logger_id \in DOMAIN P.pool
    THEN {P.pool[logger_id]}
    ELSE {LoggerConfig("", FALSE, FALSE, FALSE, TRUE, TRUE)}

\* TelegramLogger.get_logger_config
get_logger_config(P, logger_id) ==
  IF logger_id \in DOMAIN P.pool THEN {P.pool[logger_id]} ELSE None

\* PooledLogger.to_dict of the entry of logger_id at time t.
to_dict(P, t, logger_id) ==
  [logger_id |-> logger_id,
   config |-> P.pool[logger_id],
   created_at |-> P.meta[logger_id].created_at,
   last_used |-> P.meta[logger_id].last_used,
   age_seconds |-> t - P.meta[logger_id].created_at,
   message_count |-> P.meta[logger_id].message_count]

\* TelegramLogger.get_logger_info / get_pool_logger_info
get_pool_logger_info(P, t, logger_id) ==
  IF logger_id \in DOMAIN P.meta THEN {to_dict(P, t, logger_id)} ELSE None

\* TelegramLogger.get_all_loggers_info
get_all_loggers_info(P, t) == {to_dict(P, t, k) : k \in DOMAIN P.meta}

\* TelegramLogger.get_pool_stats
get_pool_stats(P, t, stats) ==
  [pool_size |-> Cardinality(DOMAIN P.pool),
   total_services |-> Cardinality(DOMAIN P.alias),
   ttl_seconds |-> ttl_seconds,
   messages_sent |-> stats.sent,
   messages_failed |-> stats.failed,
   queue_size |-> Len(P.queue),
   loggers |-> get_all_loggers_info(P, t)]

\* A status that counts the service names instead of the loggers.
get_ttl_cleanup_status_counts_services(P, enabled) ==
  [enabled |-> enabled,
   ttl_seconds |-> ttl_seconds,
   pool_size |-> Cardinality(DOMAIN P.alias)]

\* TelegramLogger.get_ttl_cleanup_status
get_ttl_cleanup_status(P, enabled) ==
  [enabled |-> enabled,
   ttl_seconds |-> ttl_seconds,
   pool_size |-> Cardinality(DOMAIN P.pool)]

\* A removal that leaves the service names of the logger in place.
remove_logger_keeps_alias(P, logger_id) ==
  IF logger_id \in DOMAIN P.pool
    THEN [P EXCEPT !.pool = Drop(@, logger_id),
                   !.meta = Drop(@, logger_id)]
    ELSE P

\* A removal that hands the service names of the logger to another logger
\* of the same service name, when the pool has one.
remove_logger_repoints(P, logger_id) ==
  IF logger_id \in DOMAIN P.pool
    THEN LET rest == Drop(P.pool, logger_id)
             same(s) == {k \in DOMAIN rest : rest[k].service_name = s}
         IN [P EXCEPT
               !.pool = rest,
               !.meta = Drop(@, logger_id),
               !.alias = [s \in {x \in DOMAIN @ :
                                   @[x] # logger_id \/ same(x) # {}}
                            |-> IF @[s] = logger_id
                                  THEN CHOOSE k \in same(s) : TRUE
                                  ELSE @[s]]]
    ELSE P

\* TelegramLogger._remove_logger
remove_logger(P, logger_id) ==
  IF logger_id \in DOMAIN P.pool
    THEN [P EXCEPT !.pool = Drop(@, logger_id),
                   !.meta = Drop(@, logger_id),
                   !.alias = [s \in {x \in DOMAIN @ : @[x] # logger_id}
                                |-> @[s]]]
    ELSE P

remove_logger_result(P, logger_id) == logger_id \in DOMAIN P.pool

\* An update that writes False for the gates that were not given.
configure_pool_logger_overwrites(P, logger_id, debug, warning, info) ==
  IF logger_id \notin DOMAIN P.pool
    THEN P
    ELSE [P EXCEPT
            !.pool[logger_id].debug_enabled = Supplied(FALSE, debug),
            !.pool[logger_id].warning_enabled = Supplied(FALSE, warning),
            !.pool[logger_id].info_enabled = Supplied(FALSE, info)]

\* TelegramLogger.configure_pool_logger
configure_pool_logger(P, logger_id, debug, warning, info) ==
  IF logger_id \notin DOMAIN P.pool
    THEN P
    ELSE [P EXCEPT
            !.pool[logger_id].debug_enabled = Supplied(@, debug),
            !.pool[logger_id].warning_enabled = Supplied(@, warning),
            !.pool[logger_id].info_enabled = Supplied(@, info)]

\* A get-or-create that makes a logger also for a service name that has
\* one.
get_service_logger_always_creates(P, t, service_name) ==
  LET Q == create_pooled_logger(P, t, service_name, FALSE, FALSE, FALSE)
  IN [Q EXCEPT !.alias = Put(@, service_name, NewLoggerId(P))]

\* TelegramLogger.get_service_logger: the pool after the call ...
get_service_logger(P, t, service_name) ==
  IF service_name \notin DOMAIN P.alias
    THEN LET Q == create_pooled_logger(P, t, service_name,
                                       FALSE, FALSE, FALSE)
         IN [Q EXCEPT !.alias = Put(@, service_name, NewLoggerId(P))]
    ELSE P

\* ... and the identity of the logger it returns.
get_service_logger_result(P, service_name) ==
  IF service_name \notin DOMAIN P.alias
    THEN NewLoggerId(P)
    ELSE P.alias[service_name]

\* A set_level without the test for error and critical.
set_level_unguarded(P, logger_id, level, enabled) ==
  CASE level = "debug" ->
         [P EXCEPT !.pool[logger_id].debug_enabled = enabled]
    [] level = "info" ->
         [P EXCEPT !.pool[logger_id].info_enabled = enabled]
    [] level = "warning" ->
         [P EXCEPT !.pool[logger_id].warning_enabled = enabled]
    [] level = "error" ->
         [P EXCEPT !.pool[logger_id].error_enabled = enabled]
    [] level = "critical" ->
         [P EXCEPT !.pool[logger_id].critical_enabled = enabled]
    [] OTHER -> P

\* A set_level that takes the info gate for the warning gate and the
\* warning gate for the info gate.
set_level_swapped(P, logger_id, level, enabled) ==
  IF level \in LevelNames /\ level \notin {"error", "critical"}
    THEN CASE level = "debug" ->
                [P EXCEPT !.pool[logger_id].debug_enabled = enabled]
           [] level = "info" ->
                [P EXCEPT !.pool[logger_id].warning_enabled = enabled]
           [] level = "warning" ->
                [P EXCEPT !.pool[logger_id].info_enabled = enabled]
    ELSE P

\* ServiceLogger.set_level
set_level(P, logger_id, level, enabled) ==
  IF level \in LevelNames /\ level \notin {"error", "critical"}
    THEN CASE level = "debug" ->
                [P EXCEPT !.pool[logger_id].debug_enabled = enabled]
           [] level = "info" ->
                [P EXCEPT !.pool[logger_id].info_enabled = enabled]
           [] level = "warning" ->
                [P EXCEPT !.pool[logger_id].warning_enabled = enabled]
    ELSE P

\* A leveled call that sets last_used before it asks the gate.
service_log_touches(P, t, logger_id, level) ==
  IF is_level_enabled(P.pool[logger_id], level)
    THEN [P EXCEPT
            !.meta[logger_id].last_used = t,
            !.queue = Append(@, LogEntry(level,
                                         P.pool[logger_id].service_name)),
            !.meta[logger_id].message_count = @ + 1]
    ELSE [P EXCEPT !.meta[logger_id].last_used = t]

\* A leveled call that leaves message_count as it is.
service_log_uncounted(P, t, logger_id, level) ==
  IF is_level_enabled(P.pool[logger_id], level)
    THEN [P EXCEPT
            !.meta[logger_id].last_used = t,
            !.queue = Append(@, LogEntry(level,
                                         P.pool[logger_id].service_name))]
    ELSE P

\* ServiceLogger.debug / info / warning / error / critical on the instance
\* of logger_id: the gate, _update_pool_entry, queue.put, message_count.
service_log(P, t, logger_id, level) ==
  IF is_level_enabled(P.pool[logger_id], level)
    THEN [P EXCEPT
            !.meta[logger_id].last_used = t,
            !.queue = Append(@, LogEntry(level,
                                         P.pool[logger_id].service_name)),
            !.meta[logger_id].message_count = @ + 1]
    ELSE P

\* TelegramLogger.debug / info / warning / error / critical: the
\* backward-compatible logging on the logger of a service name.
telegram_log(P, t, service_name, level) ==
  LET Q == get_service_logger(P, t, service_name)
  IN service_log(Q, t, get_service_logger_result(P, service_name), level)

\* TelegramLogger.configure_service: the backward-compatible update.
configure_service(P, t, service_name, debug, warning, info) ==
  configure_pool_logger(get_service_logger(P, t, service_name),
                        get_service_logger_result(P, service_name),
                        debug, warning, info)

\* TelegramLogger.get_service_config: the configuration in the metadata
\* entry of the identity the service name maps to.
get_service_config(P, service_name) ==
  IF service_name \notin DOMAIN P.alias
    THEN None
    ELSE {P.pool[P.alias[service_name]]}

\* TelegramLogger.list_services
list_services(P) ==
  [s \in DOMAIN P.alias |->
     [logger_id |-> P.alias[s], config |-> P.pool[P.alias[s]]]]

\* A set of identities as a list in the order of the dictionary, which
\* is the order of insertion.
RECURSIVE InOrder(_)
InOrder(S) ==
  IF S = {}
    THEN <<>>
    ELSE LET m == CHOOSE x \in S : \A y \in S : x <= y
         IN <<m>> \o InOrder(S \ {m})

\* A sweep that also takes the entries whose age is exactly ttl_seconds.
Expired_inclusive(P, t) ==
  InOrder({k \in DOMAIN P.meta : t - P.meta[k].last_used >= ttl_seconds})

\* The loop of _cleanup_worker over _pool_metadata: the identities whose
\* age is above ttl_seconds.
Expired(P, t) ==
  InOrder({k \in DOMAIN P.meta : t - P.meta[k].last_used > ttl_seconds})

\* `while self.running` of both worker threads.
LoopTop == IF running THEN "sleep" ELSE "stopped"

\* ------------------------------------------------------------ the state
\* queue.put waits while the queue is full: a call is taken when it can run
\* to its end.
Commit(P) ==
  /\ Len(P.queue) <= maxsize
  /\ _logger_pool' = P.pool
  /\ _pool_metadata' = P.meta
  /\ _service_to_logger_id' = P.alias
  /\ log_queue' = P.queue
  /\ nextId' = P.nextId

Returns(op, val) == ret' = [op |-> op, val |-> val]

\* TelegramLogger.__init__ as src/main.py calls it: the default service
\* logger is in the pool and has the alias; _test_connection's info call
\* is at a disabled level.
InitPool ==
  LET P == create_pooled_logger(
             [pool |-> Empty, meta |-> Empty, alias |-> Empty,
              queue |-> <<>>, nextId |-> 0],
             0, default_service_name, FALSE, FALSE, FALSE)
  IN service_log([P EXCEPT !.alias = Put(@, default_service_name, 0)],
                 0, 0, "info")

InitFrom(P) ==
  /\ _logger_pool = P.pool
  /\ _pool_metadata = P.meta
  /\ _service_to_logger_id = P.alias
  /\ log_queue = P.queue
  /\ nextId = P.nextId
  /\ _stats = [sent |-> 0, failed |-> 0]
  /\ enable_ttl_cleanup = TRUE
  /\ running = TRUE
  /\ now = 0
  /\ reaperPc = "sleep"
  /\ expired_ids = <<>>
  /\ entry = None
  /\ calls = [c \in Callers |-> NoCall]
  /\ server_running = TRUE
  /\ _lock = None
  /\ _files = {}
  /\ metadata = Empty
  /\ tasks = Empty

Init ==
  /\ InitFrom(InitPool)
  /\ ret = [op |-> "init", val |-> None]

\* ------------------------------------------------- the registry's methods
\* `with self._lock`: a thread enters when no other thread holds the lock.
\* A method that takes and releases the lock within one step needs the
\* lock free at that step.
WithLock == _lock = None

Others == <<_stats, enable_ttl_cleanup, running, now, reaperPc, expired_ids,
           Threads,
           _lock, Files>>

CreatePooledLogger(s, d, w, i) ==
  /\ WithLock
  /\ Commit(create_pooled_logger(Pool, now, s, d, w, i))
  /\ Returns("create_pooled_logger", {NewLoggerId(Pool)})
  /\ UNCHANGED Others

GetLogger(id) ==
  /\ WithLock
  /\ Commit(get_logger(Pool, now, id))
  /\ Returns("get_logger", get_logger_result(Pool, id))
  /\ UNCHANGED Others

GetLoggerConfig(id) ==
  /\ WithLock
  /\ Commit(Pool)
  /\ Returns("get_logger_config", get_logger_config(Pool, id))
  /\ UNCHANGED Others

GetLoggerInfo(id) ==
  /\ WithLock
  /\ Commit(Pool)
  /\ Returns("get_logger_info", get_pool_logger_info(Pool, now, id))
  /\ UNCHANGED Others

GetAllLoggersInfo ==
  /\ WithLock
  /\ Commit(Pool)
  /\ Returns("get_all_loggers_info", get_all_loggers_info(Pool, now))
  /\ UNCHANGED Others

GetPoolStats ==
  /\ WithLock
  /\ Commit(Pool)
  /\ Returns("get_pool_stats", {get_pool_stats(Pool, now, _stats)})
  /\ UNCHANGED Others

GetTtlCleanupStatus ==
  /\ WithLock
  /\ Commit(Pool)
  /\ Returns("get_ttl_cleanup_status",
             {get_ttl_cleanup_status(Pool, enable_ttl_cleanup)})
  /\ UNCHANGED Others

RemoveLogger(id) ==
  /\ WithLock
  /\ Commit(remove_logger(Pool, id))
  /\ Returns("remove_logger", {remove_logger_result(Pool, id)})
  /\ UNCHANGED Others

ConfigurePoolLogger(id, d, w, i) ==
  LET Q == configure_pool_logger(Pool, id, d, w, i)
  IN /\ WithLock
     /\ Commit(Q)
     /\ Returns("configure_pool_logger", get_logger_config(Q, id))
     /\ UNCHANGED Others

GetServiceLogger(s) ==
  /\ WithLock
  /\ Commit(get_service_logger(Pool, now, s))
  /\ Returns("get_service_logger", {get_service_logger_result(Pool, s)})
  /\ UNCHANGED Others

GetServiceConfig(s) ==
  /\ WithLock
  /\ Commit(Pool)
  /\ Returns("get_service_config", get_service_config(Pool, s))
  /\ UNCHANGED Others

ListServices ==
  /\ WithLock
  /\ Commit(Pool)
  /\ Returns("list_services", {list_services(Pool)})
  /\ UNCHANGED Others

ConfigureService(s, d, w, i) ==
  LET Q == configure_service(Pool, now, s, d, w, i)
  IN /\ WithLock
     /\ Commit(Q)
     /\ Returns("configure_service", get_logger_config(Q, get_service_logger_result(Pool, s)))
     /\ UNCHANGED Others

\* set_level on the instance of a logger in the pool.
SetLevel(id, l, e) ==
  /\ WithLock
  /\ id \in DOMAIN _logger_pool
  /\ Commit(set_level(Pool, id, l, e))
  /\ Returns("set_level", None)
  /\ UNCHANGED Others

\* A leveled call on the instance of a logger in the pool.
ServiceLog(id, l) ==
  /\ id \in DOMAIN _logger_pool
  /\ Commit(service_log(Pool, now, id, l))
  /\ Returns("service_log", None)
  /\ UNCHANGED Others

\* TelegramLogger.set_ttl_cleanup
SetTtlCleanup(enabled) ==
  /\ WithLock
  /\ enable_ttl_cleanup' = enabled
  /\ Returns("set_ttl_cleanup", {enabled})
  /\ UNCHANGED <<_logger_pool, _pool_metadata, _service_to_logger_id,
                 log_queue, _stats, running, now, nextId, reaperPc,
                 expired_ids, Threads,
           _lock, Files>>

\* ------------------------------------------------ the endpoints of api.py
\* POST /api/logger/create: absent gates are False; the handler then logs
\* "Logger created" at info through the default service.
ApiCreateLogger(s, d, w, i) ==
  LET Q == create_pooled_logger(Pool, now, s, Supplied(FALSE, d),
                                Supplied(FALSE, w), Supplied(FALSE, i))
  IN /\ WithLock
     /\ Commit(telegram_log(Q, now, default_service_name, "info"))
     /\ Returns("api_create_logger", {NewLoggerId(Pool)})
     /\ UNCHANGED Others

\* PUT /api/logger/<id>/config: 404 for an unknown identity, else the
\* updated configuration, and "Logger config updated" logged at info.
ApiUpdateLoggerConfig(id, d, w, i) ==
  LET Q == configure_pool_logger(Pool, id, d, w, i)
      updated_config == get_logger_config(Q, id)
  IN /\ WithLock
     /\ Commit(IF updated_config = None
                 THEN Q
                 ELSE telegram_log(Q, now, default_service_name, "info"))
     /\ Returns("api_update_logger_config", updated_config)
     /\ UNCHANGED Others

\* A handler that looks the logger up before it validates the level.
api_log_message_lookup_first(P, t, logger_id, level, message) ==
  IF message = ""
    THEN P
    ELSE IF lower(level) \notin LevelNames
           THEN get_logger(P, t, logger_id)
           ELSE IF get_logger_result(P, logger_id) = None
                  THEN get_logger(P, t, logger_id)
                  ELSE service_log(get_logger(P, t, logger_id), t, logger_id,
                                   lower(level))

\* POST /api/logger/<id>/log: the level is lower-cased; 400 for an empty
\* message, 400 for a level that is none, 404 for an unknown identity, else
\* the leveled call on the instance that get_logger returned.
api_log_message(P, t, logger_id, level, message) ==
  IF message = "" \/ lower(level) \notin LevelNames
    THEN P
    ELSE IF get_logger_result(P, logger_id) = None
           THEN get_logger(P, t, logger_id)
           ELSE service_log(get_logger(P, t, logger_id), t, logger_id,
                            lower(level))

api_log_message_result(P, logger_id, level, message) ==
  IF message = ""
    THEN "Message required"
    ELSE IF lower(level) \notin LevelNames
           THEN "Invalid log level"
           ELSE IF get_logger_result(P, logger_id) = None
                  THEN "Logger not found"
                  ELSE "logged"

ApiLogMessage(id, l, m) ==
  /\ WithLock
  /\ Commit(api_log_message(Pool, now, id, l, m))
  /\ Returns("api_log_message", {api_log_message_result(Pool, id, l, m)})
  /\ UNCHANGED Others

\* GET /api/logger/<id>: 404 when get_logger_info returns None.  Otherwise
\* "Logger info retrieved" is logged at debug through the default service
\* and the handler calls to_dict on what get_logger_info returned, which is
\* a dict already: the AttributeError lands in the handler's except
\* branch, which logs at error through the default service and answers 500.
api_get_logger_info(P, t, logger_id) ==
  IF get_pool_logger_info(P, t, logger_id) = None
    THEN P
    ELSE telegram_log(telegram_log(P, t, default_service_name, "debug"),
                      t, default_service_name, "error")

api_get_logger_info_result(P, t, logger_id) ==
  IF get_pool_logger_info(P, t, logger_id) = None
    THEN [status |-> 404, body |-> "Logger not found"]
    ELSE [status |-> 500,
          body |-> "'dict' object has no attribute 'to_dict'"]

ApiGetLoggerInfo(id) ==
  /\ WithLock
  /\ Commit(api_get_logger_info(Pool, now, id))
  /\ Returns("api_get_logger_info", api_get_logger_info_result(Pool, now, id))
  /\ UNCHANGED Others

\* A toggle that switches the cleanup on when no value is given.
toggle_ttl_cleanup_on(enabled, current_enabled) == Supplied(TRUE, enabled)

\* POST /api/logger/ttl/toggle, the value handed to set_ttl_cleanup: the
\* "enabled" field, or the opposite of the current state when it is absent.
toggle_ttl_cleanup(enabled, current_enabled) ==
  Supplied(~current_enabled, enabled)

\* The handler sets the switch, logs "TTL cleanup ..." at info through the
\* default service and answers with the new state.
ApiToggleTtlCleanup(enabled) ==
  LET new_state == toggle_ttl_cleanup(enabled, enable_ttl_cleanup)
  IN /\ WithLock
     /\ enable_ttl_cleanup' = new_state
     /\ Commit(telegram_log(Pool, now, default_service_name, "info"))
     /\ Returns("api_toggle_ttl_cleanup", {new_state})
     /\ UNCHANGED <<_stats, running, now, reaperPc, expired_ids, Threads,
           _lock, Files>>

\* ---------------------------------------------------- the cleanup thread
ReaperOthers == <<_stats, enable_ttl_cleanup, running, now, ret, Threads,
           _lock, Files>>

\* time.sleep(60) returns.
ReaperWake ==
  /\ reaperPc = "sleep"
  /\ reaperPc' = "check"
  /\ UNCHANGED <<_logger_pool, _pool_metadata, _service_to_logger_id,
                 log_queue, nextId, expired_ids>>
  /\ UNCHANGED ReaperOthers

\* A sweep that does not ask whether the cleanup is enabled.
ReaperCheck_unconditional ==
  /\ reaperPc = "check"
  /\ reaperPc' = "scan"
  /\ UNCHANGED <<_logger_pool, _pool_metadata, _service_to_logger_id,
                 log_queue, nextId, expired_ids>>
  /\ UNCHANGED ReaperOthers

\* `if not self.enable_ttl_cleanup: continue`, read without the lock.
ReaperCheck ==
  /\ reaperPc = "check"
  /\ reaperPc' = IF enable_ttl_cleanup THEN "scan" ELSE LoopTop
  /\ UNCHANGED <<_logger_pool, _pool_metadata, _service_to_logger_id,
                 log_queue, nextId, expired_ids>>
  /\ UNCHANGED ReaperOthers

\* The scan under the lock.
ReaperScan ==
  /\ WithLock
  /\ reaperPc = "scan"
  /\ reaperPc' = "remove"
  /\ expired_ids' = Expired(Pool, now)
  /\ UNCHANGED <<_logger_pool, _pool_metadata, _service_to_logger_id,
                 log_queue, nextId>>
  /\ UNCHANGED ReaperOthers

\* One turn of `for logger_id in expired_ids: self._remove_logger(...)`.
ReaperRemove ==
  /\ reaperPc = "remove"
  /\ IF expired_ids = <<>>
       THEN /\ reaperPc' = LoopTop
            /\ UNCHANGED <<_logger_pool, _pool_metadata,
                           _service_to_logger_id, log_queue, nextId,
                           expired_ids>>
       ELSE /\ WithLock
            /\ Commit(remove_logger(Pool, Head(expired_ids)))
            /\ expired_ids' = Tail(expired_ids)
            /\ UNCHANGED reaperPc
  /\ UNCHANGED ReaperOthers

\* A worker that has stopped: it takes nothing off the queue.
WorkerGet_stopped ==
  /\ ~running
  /\ entry = None
  /\ log_queue # <<>>
  /\ entry' = {Head(log_queue)}
  /\ log_queue' = Tail(log_queue)
  /\ UNCHANGED <<_logger_pool, _pool_metadata, _service_to_logger_id,
                 _stats, enable_ttl_cleanup, running, now, nextId, reaperPc,
                 expired_ids, ret, calls, server_running,
                 _lock, Files>>

\* A worker that takes the newest record off the queue.
WorkerGet_newest ==
  /\ running
  /\ entry = None
  /\ log_queue # <<>>
  /\ entry' = {log_queue[Len(log_queue)]}
  /\ log_queue' = SubSeq(log_queue, 1, Len(log_queue) - 1)
  /\ UNCHANGED <<_logger_pool, _pool_metadata, _service_to_logger_id,
                 _stats, enable_ttl_cleanup, running, now, nextId, reaperPc,
                 expired_ids, ret, calls, server_running,
                 _lock, Files>>

\* _worker: `while self.running`, then log_queue.get takes the oldest
\* record off the queue (its timeout, Empty, leaves everything as it is).
WorkerGet ==
  /\ running
  /\ entry = None
  /\ log_queue # <<>>
  /\ entry' = {Head(log_queue)}
  /\ log_queue' = Tail(log_queue)
  /\ UNCHANGED <<_logger_pool, _pool_metadata, _service_to_logger_id,
                 _stats, enable_ttl_cleanup, running, now, nextId, reaperPc,
                 expired_ids, ret, calls, server_running,
                 _lock, Files>>

\* A sender that puts a record it could not deliver back on the queue.
WorkerSend_requeues(ok) ==
  /\ entry # None
  /\ entry' = None
  /\ log_queue' = IF ok THEN log_queue
                        ELSE Append(log_queue, CHOOSE e \in entry : TRUE)
  /\ _stats' = IF ok THEN [_stats EXCEPT !.sent = @ + 1]
                     ELSE [_stats EXCEPT !.failed = @ + 1]
  /\ UNCHANGED <<_logger_pool, _pool_metadata, _service_to_logger_id,
                 enable_ttl_cleanup, running, now, nextId, reaperPc,
                 expired_ids, ret, calls, server_running,
                 _lock, Files>>

\* A sender that a failed delivery stops: the worker's loop ends with it.
WorkerSend_dies(ok) ==
  /\ entry # None
  /\ entry' = None
  /\ running' = (running /\ ok)
  /\ _stats' = IF ok THEN [_stats EXCEPT !.sent = @ + 1]
                     ELSE [_stats EXCEPT !.failed = @ + 1]
  /\ UNCHANGED <<_logger_pool, _pool_metadata, _service_to_logger_id,
                 log_queue, enable_ttl_cleanup, now, nextId, reaperPc,
                 expired_ids, ret, calls, server_running,
                 _lock, Files>>

\* _send_log: one post of the record to the Telegram API; its answer
\* decides which counter moves (an exception counts as failed).
WorkerSend(ok) ==
  /\ WithLock
  /\ entry # None
  /\ entry' = None
  /\ _stats' = IF ok THEN [_stats EXCEPT !.sent = @ + 1]
                     ELSE [_stats EXCEPT !.failed = @ + 1]
  /\ UNCHANGED <<_logger_pool, _pool_metadata, _service_to_logger_id,
                 log_queue, enable_ttl_cleanup, running, now, nextId,
                 reaperPc, expired_ids, ret, calls, server_running,
                 _lock, Files>>

\* What no step of a leveled call writes.
CallOthers == <<_logger_pool, _service_to_logger_id, _stats,
                enable_ttl_cleanup, running, now, nextId, reaperPc,
                expired_ids, ret, entry, server_running,
                _lock, Files>>

\* A leveled call of caller c on the instance of logger_id, up to its
\* queue.put: `if self._should_log(level): self._update_pool_entry()`.
\* With the gate closed the call returns here.
CallBegin(c, logger_id, level) ==
  /\ calls[c] = NoCall
  /\ logger_id \in DOMAIN _logger_pool
  /\ IF is_level_enabled(_logger_pool[logger_id], level)
       THEN /\ _pool_metadata' =
                 [_pool_metadata EXCEPT ![logger_id].last_used = now]
            /\ calls' = [calls EXCEPT ![c] =
                 [pc |-> "put", logger_id |-> logger_id, level |-> level,
                  service |-> _logger_pool[logger_id].service_name,
                  seen |-> 0]]
       ELSE UNCHANGED <<_pool_metadata, calls>>
  /\ UNCHANGED <<log_queue, CallOthers>>

\* self.queue.put(LogEntry(...)): Queue.put with block=True and no
\* timeout.  With room the record goes to the tail; with the queue full
\* the caller waits on the queue's not_full condition.
CallPut(c) ==
  /\ calls[c].pc = "put"
  /\ IF Len(log_queue) < maxsize
       THEN /\ log_queue' = Append(log_queue,
                                   LogEntry(calls[c].level, calls[c].service))
            /\ calls' = [calls EXCEPT ![c].pc = "read"]
       ELSE /\ calls' = [calls EXCEPT ![c].pc = "waiting"]
            /\ UNCHANGED log_queue
  /\ UNCHANGED <<_pool_metadata, CallOthers>>

\* The caller that waits in Queue.put goes on once the queue has room.
CallWake(c) ==
  /\ calls[c].pc = "waiting"
  /\ Len(log_queue) < maxsize
  /\ log_queue' = Append(log_queue,
                         LogEntry(calls[c].level, calls[c].service))
  /\ calls' = [calls EXCEPT ![c].pc = "read"]
  /\ UNCHANGED <<_pool_metadata, CallOthers>>

\* `self.pool_entry.message_count += 1`, first half: the counter is read.
\* No lock is held, so other callers run between the read and the write.
CallRead(c) ==
  /\ calls[c].pc = "read"
  /\ calls' = [calls EXCEPT
       ![c].pc = "write",
       ![c].seen = IF calls[c].logger_id \in DOMAIN _pool_metadata
                     THEN _pool_metadata[calls[c].logger_id].message_count
                     ELSE 0]
  /\ UNCHANGED <<_pool_metadata, log_queue, CallOthers>>

\* `self.pool_entry.message_count += 1`, second half: the value read plus
\* one is stored, and the call returns.
CallWrite(c) ==
  /\ calls[c].pc = "write"
  /\ _pool_metadata' =
       IF calls[c].logger_id \in DOMAIN _pool_metadata
         THEN [_pool_metadata EXCEPT
                 ![calls[c].logger_id].message_count = calls[c].seen + 1]
         ELSE _pool_metadata
  /\ calls' = [calls EXCEPT ![c] = NoCall]
  /\ UNCHANGED <<log_queue, CallOthers>>

\* What no step of TelegramLogger's own leveled methods writes.
TelegramLogOthers == <<_stats, enable_ttl_cleanup, running, now, reaperPc,
                       expired_ids, ret, entry, server_running, Files>>

\* TelegramLogger.debug/info/warning/error/critical of caller c, first
\* step: get_service_logger enters `with self._lock` and, inside it, finds
\* the logger of the service or creates it.
TelegramLogEnter(c, s, l) ==
  /\ calls[c] = NoCall
  /\ WithLock
  /\ _lock' = {c}
  /\ Commit(get_service_logger(Pool, now, s))
  /\ calls' = [calls EXCEPT ![c] =
       [pc |-> "locked", logger_id |-> get_service_logger_result(Pool, s),
        level |-> l, service |-> s, seen |-> 0]]
  /\ UNCHANGED TelegramLogOthers

\* A get_service_logger that returns with the lock still held, so that
\* the leveled call is made inside it.
TelegramLogLeave_holds(c) ==
  /\ calls[c].pc = "locked"
  /\ _lock = {c}
  /\ calls' = [calls EXCEPT ![c].pc = "gate"]
  /\ UNCHANGED <<_logger_pool, _pool_metadata, _service_to_logger_id,
                 log_queue, nextId, _lock, TelegramLogOthers>>

\* get_service_logger returns: the `with` block ends and the lock is free.
TelegramLogLeave(c) ==
  /\ calls[c].pc = "locked"
  /\ _lock = {c}
  /\ _lock' = None
  /\ calls' = [calls EXCEPT ![c].pc = "gate"]
  /\ UNCHANGED <<_logger_pool, _pool_metadata, _service_to_logger_id,
                 log_queue, nextId, TelegramLogOthers>>

\* `if logger: logger.<level>(message, metadata)`: the leveled call on the
\* instance, up to its queue.put, as in CallBegin.
TelegramLogCall(c) ==
  /\ calls[c].pc = "gate"
  /\ calls[c].logger_id \in DOMAIN _logger_pool
  /\ IF is_level_enabled(_logger_pool[calls[c].logger_id], calls[c].level)
       THEN /\ _pool_metadata' =
                 [_pool_metadata EXCEPT ![calls[c].logger_id].last_used = now]
            /\ calls' = [calls EXCEPT ![c].pc = "put"]
       ELSE /\ calls' = [calls EXCEPT ![c] = NoCall]
            /\ UNCHANGED _pool_metadata
  /\ UNCHANGED <<_logger_pool, _service_to_logger_id, log_queue, nextId,
                 _lock, TelegramLogOthers>>

\* FileServer.shutdown: the server's own flag goes down and "Server
\* shutting down" is logged at info on the default service.  The logger's
\* `running` is not written.
Shutdown ==
  /\ WithLock
  /\ server_running
  /\ server_running' = FALSE
  /\ Commit(telegram_log(Pool, now, default_service_name, "info"))
  /\ Returns("shutdown", None)
  /\ UNCHANGED <<_stats, enable_ttl_cleanup, running, now, reaperPc,
                 expired_ids, entry, calls, _lock, Files>>

Tick ==
  /\ now' = now + 1
  /\ UNCHANGED <<_logger_pool, _pool_metadata, _service_to_logger_id,
                 log_queue, _stats, enable_ttl_cleanup, running, nextId,
                 reaperPc, expired_ids, ret, Threads,
           _lock, Files>>

\* ------------------------------------------------------------- the files
\* FileStatus
FileStatus == [PENDING |-> "pending", PROCESSING |-> "processing",
               COMPLETED |-> "completed", FAILED |-> "failed"]

\* FileMetadata: the fields the upload writes and the endpoints read.  An
\* Optional field is None or holds its value; the metadata dict is the set
\* of its keys.
FileMetadata(file_id, telegram_file_id, view_url, download_url, status, meta) ==
  [file_id |-> file_id, telegram_file_id |-> telegram_file_id,
   view_url |-> view_url, download_url |-> download_url, status |-> status,
   metadata |-> meta]

\* generate_file_id: an identifier no record has had.
generate_file_id == Cardinality(DOMAIN metadata)

\* What TelegramStorageBackend.save returns for the file when it does not
\* raise.
storage_save(file_id) ==
  [telegram_id |-> <<"telegram", file_id>>,
   download_url |-> <<"download", file_id>>,
   view_url |-> <<"view", file_id>>]

\* DirectUploadProcessor.process: the record of a direct upload.
upload_processor(file_id) ==
  FileMetadata(file_id, None, None, None, FileStatus.PROCESSING, {})

\* URLImportProcessor.process: the file is saved first, and the record is
\* built from the result.
url_processor(file_id) ==
  LET result == storage_save(file_id)
  IN FileMetadata(file_id, {result.telegram_id}, {result.view_url},
                  {result.download_url}, FileStatus.COMPLETED,
                  {"source_url"})

\* An upload that marks the record completed before it stores the result.
process_upload_saved_status_first(result) ==
  << <<"status", FileStatus.COMPLETED>>,
     <<"telegram_file_id", {result.telegram_id}>>,
     <<"download_url", {result.download_url}>>,
     <<"view_url", {result.view_url}>> >>

\* process_upload after storage.save has returned: the keyword arguments
\* of metadata.update, in the order FileMetadata.update goes through them.
process_upload_saved(result) ==
  << <<"telegram_file_id", {result.telegram_id}>>,
     <<"download_url", {result.download_url}>>,
     <<"view_url", {result.view_url}>>,
     <<"status", FileStatus.COMPLETED>> >>

\* An except branch that notes the error and leaves the status as it is.
process_upload_raised_silent == << <<"metadata", {"error"}>> >>

\* process_upload after storage.save has raised: the keyword arguments of
\* metadata.update in the except branch.
process_upload_raised ==
  << <<"status", FileStatus.FAILED>>, <<"metadata", {"error"}>> >>

\* setattr(self, key, value) of FileMetadata.update.
setattr(m, kv) == [m EXCEPT ![kv[1]] = kv[2]]

\* FileManager.get_file, that is FileRepository.get: the object the
\* repository holds under the identifier, or None.
get_file(identifier) ==
  IF identifier \in _files THEN {metadata[identifier]} ELSE None

\* GET /api/file/<file_id>/view-url and /download-url, for the url field
\* they read: 404 without a record, 202 unless the status is COMPLETED,
\* else 200 with the url.
get_url(found, field) ==
  IF found = None
    THEN [status |-> 404, body |-> <<"File not found">>]
    ELSE LET m == CHOOSE r \in found : TRUE
         IN IF m.status # FileStatus.COMPLETED
              THEN [status |-> 202, body |-> <<"File not ready", m.status>>]
              ELSE [status |-> 200, body |-> <<field, m[field]>>]

get_view_url(file_id) == get_url(get_file(file_id), "view_url")

get_download_url(file_id) == get_url(get_file(file_id), "download_url")

\* What no operation on the files writes.  The log calls of the file
\* manager are made at levels of the default service and are left out.
FileOthers == <<_logger_pool, _pool_metadata, _service_to_logger_id,
                log_queue, _stats, enable_ttl_cleanup, running, now, nextId,
                reaperPc, expired_ids, entry, calls, server_running, _lock>>

\* FileManager.upload_file.  The processor raises for a file that is too
\* large, and nothing is registered; otherwise the record is added to the
\* repository as PROCESSING, process_upload is submitted to the executor
\* and the record is returned.
UploadFile(ok) ==
  /\ IF ok
       THEN LET file_id == generate_file_id
            IN /\ metadata' = Put(metadata, file_id,
                                  upload_processor(file_id))
               /\ _files' = _files \cup {file_id}
               /\ tasks' = Put(tasks, file_id,
                               [pc |-> "save", todo |-> <<>>,
                                saved |-> FALSE])
               /\ Returns("upload_file", {file_id})
       ELSE /\ UNCHANGED Files
            /\ Returns("upload_file", None)
  /\ UNCHANGED FileOthers

\* FileManager.import_from_url: the processor raises, or returns a record
\* that is complete, which is added to the repository.
ImportFromUrl(ok) ==
  /\ IF ok
       THEN LET file_id == generate_file_id
            IN /\ metadata' = Put(metadata, file_id, url_processor(file_id))
               /\ _files' = _files \cup {file_id}
               /\ Returns("import_from_url", {file_id})
       ELSE /\ UNCHANGED <<metadata, _files>>
            /\ Returns("import_from_url", None)
  /\ UNCHANGED <<tasks, FileOthers>>

\* process_upload in the executor: self.storage.save returns or raises.
ProcessUploadSave(file_id, ok) ==
  /\ file_id \in DOMAIN tasks
  /\ tasks[file_id].pc = "save"
  /\ tasks' = [tasks EXCEPT ![file_id] =
       [pc |-> "update",
        todo |-> IF ok THEN process_upload_saved(storage_save(file_id))
                       ELSE process_upload_raised,
        saved |-> ok]]
  /\ UNCHANGED <<metadata, _files, ret, FileOthers>>

\* One turn of the loop of FileMetadata.update: the next field is written
\* on the object, which the repository and the readers share.  After the
\* last field update returns and process_upload goes on to its add.
ProcessUploadUpdate(file_id) ==
  /\ file_id \in DOMAIN tasks
  /\ tasks[file_id].pc = "update"
  /\ IF tasks[file_id].todo = <<>>
       THEN /\ tasks' = [tasks EXCEPT ![file_id].pc = "add"]
            /\ UNCHANGED metadata
       ELSE /\ metadata' = [metadata EXCEPT ![file_id] =
                             setattr(@, Head(tasks[file_id].todo))]
            /\ tasks' = [tasks EXCEPT
                 ![file_id].todo = Tail(@)]
  /\ UNCHANGED <<_files, ret, FileOthers>>

\* self.repository.add(metadata) at the end of process_upload, in the try
\* branch and in the except branch alike.
ProcessUploadAdd(file_id) ==
  /\ file_id \in DOMAIN tasks
  /\ tasks[file_id].pc = "add"
  /\ _files' = _files \cup {file_id}
  /\ tasks' = [tasks EXCEPT ![file_id].pc = "done"]
  /\ UNCHANGED <<metadata, ret, FileOthers>>

\* FileManager.delete_file: False without a record; storage.delete does
\* nothing; repository.delete takes the record out.
DeleteFile(identifier) ==
  /\ _files' = _files \ {identifier}
  /\ Returns("delete_file", {identifier \in _files})
  /\ UNCHANGED <<metadata, tasks, FileOthers>>

GetFile(identifier) ==
  /\ Returns("get_file", get_file(identifier))
  /\ UNCHANGED <<Files, FileOthers>>

GetViewUrl(file_id) ==
  /\ Returns("get_view_url", {get_view_url(file_id)})
  /\ UNCHANGED <<Files, FileOthers>>

GetDownloadUrl(file_id) ==
  /\ Returns("get_download_url", {get_download_url(file_id)})
  /\ UNCHANGED <<Files, FileOthers>>

\* -------------------------------------------------------- specifications
\* The messages the loggers of the pool have accepted.
RECURSIVE Accepted(_)
Accepted(meta) ==
  IF DOMAIN meta = {} THEN 0
  ELSE LET i == CHOOSE j \in DOMAIN meta : TRUE
       IN meta[i].message_count + Accepted(Drop(meta, i))

\* The bounds of a specification: identities handed out, clock, messages.
Within(ids, time, count) ==
  /\ nextId' <= ids
  /\ now' <= time
  /\ Accepted(_pool_metadata') <= count

\* The pool's life cycle: creation, lookup, the queries, removal, aliases,
\* and the clock.  Every logger is created with the gates left out, and
\* the log calls are at a level those gates close.
Bounded == Within(MaxIds, MaxTime, 0)

Next ==
  \/ \E s \in ServiceNames :
       CreatePooledLogger(s, FALSE, FALSE, FALSE) /\ Bounded
  \/ \E s \in ServiceNames : ApiCreateLogger(s, None, None, None) /\ Bounded
  \/ \E id \in Ids : GetLogger(id) /\ Bounded
  \/ \E id \in Ids : GetLoggerConfig(id) /\ Bounded
  \/ \E id \in Ids : RemoveLogger(id) /\ Bounded
  \/ \E s \in ServiceNames : GetServiceLogger(s) /\ Bounded
  \/ \E id \in Ids, m \in Messages :
       ApiLogMessage(id, "debug", m) /\ Bounded
  \/ \E id \in Ids : GetLoggerInfo(id) /\ Bounded
  \/ GetAllLoggersInfo /\ Bounded
  \/ GetPoolStats /\ Bounded
  \/ GetTtlCleanupStatus /\ Bounded
  \/ Tick /\ Bounded

Spec == Init /\ [][Next]_vars

\* The cleanup thread beside the calls that decide what it finds: creation,
\* the lookup that sets last_used, removal, the switch and the clock.
NextSweep ==
  \/ \E s \in ServiceNames :
       CreatePooledLogger(s, FALSE, FALSE, FALSE) /\ Bounded
  \/ \E id \in Ids : GetLogger(id) /\ Bounded
  \/ \E id \in Ids : RemoveLogger(id) /\ Bounded
  \/ \E e \in BOOLEAN : SetTtlCleanup(e) /\ Bounded
  \/ ReaperWake /\ Bounded
  \/ ReaperCheck /\ Bounded
  \/ ReaperScan /\ Bounded
  \/ ReaperRemove /\ Bounded
  \/ Tick /\ Bounded

SpecSweep == Init /\ [][NextSweep]_vars

\* The gates: creation with every choice of gates, and every update made
\* through the registry or the instance.  The clock stands still and
\* nothing is logged.
BoundedConfig == Within(MaxIds, 0, 0)

NextConfig ==
  \/ \E s \in ServiceNames, d \in BOOLEAN, w \in BOOLEAN, i \in BOOLEAN :
       CreatePooledLogger(s, d, w, i) /\ BoundedConfig
  \/ \E id \in Ids, d \in OptBool, w \in OptBool, i \in OptBool :
       ConfigurePoolLogger(id, d, w, i) /\ BoundedConfig
  \/ \E s \in ServiceNames, d \in OptBool, w \in OptBool, i \in OptBool :
       ConfigureService(s, d, w, i) /\ BoundedConfig
  \/ \E id \in Ids, l \in SetLevelNames, e \in BOOLEAN :
       SetLevel(id, l, e) /\ BoundedConfig
  \/ \E id \in Ids : RemoveLogger(id) /\ BoundedConfig

SpecConfig == Init /\ [][NextConfig]_vars

\* Creation through the registry and through the endpoint with every
\* choice of gates, and the reading of the configuration.
NextCreate ==
  \/ \E s \in ServiceNames, d \in BOOLEAN, w \in BOOLEAN, i \in BOOLEAN :
       CreatePooledLogger(s, d, w, i) /\ BoundedConfig
  \/ \E s \in ServiceNames, d \in OptBool, w \in OptBool, i \in OptBool :
       ApiCreateLogger(s, d, w, i) /\ BoundedConfig
  \/ \E id \in Ids : GetLoggerConfig(id) /\ BoundedConfig
  \/ \E id \in Ids : RemoveLogger(id) /\ BoundedConfig

SpecCreate == Init /\ [][NextCreate]_vars

\* Logging: the default service logger, whose debug, warning and info are
\* closed, and one logger created with debug and info open or with warning
\* open, so that every level is met open and closed; leveled calls, the
\* worker and the clock.
InitLog ==
  \E g \in {<<TRUE, FALSE, TRUE>>, <<FALSE, TRUE, FALSE>>} :
    /\ InitFrom(create_pooled_logger(InitPool, 0, "svc", g[1], g[2], g[3]))
    /\ ret = [op |-> "create_pooled_logger",
              val |-> {NewLoggerId(InitPool)}]

BoundedLog == Within(MaxIds, LogTime, LogCount)

NextLog ==
  \/ \E id \in Ids, l \in LevelNames : ServiceLog(id, l) /\ BoundedLog
  \/ \E id \in Ids, l \in SetLevelNames, m \in Messages :
       ApiLogMessage(id, l, m) /\ BoundedLog
  \/ WorkerGet /\ BoundedLog
  \/ \E ok \in BOOLEAN : WorkerSend(ok) /\ BoundedLog
  \/ Tick /\ BoundedLog

SpecLog == InitLog /\ [][NextLog]_vars

\* The identities a caller passes: those of the pool and one that no
\* logger has.
Callable == DOMAIN _logger_pool \cup {nextId}

\* Updates of the gates, through the registry and through the endpoint:
\* the default service logger and one logger created with the gates left
\* out, one tick of the clock after their creation.
InitUpdate ==
  LET P == create_pooled_logger(InitPool, 0, "svc", FALSE, FALSE, FALSE)
  IN /\ _logger_pool = P.pool
     /\ _pool_metadata = P.meta
     /\ _service_to_logger_id = P.alias
     /\ log_queue = P.queue
     /\ nextId = P.nextId
     /\ _stats = [sent |-> 0, failed |-> 0]
     /\ enable_ttl_cleanup = TRUE
     /\ running = TRUE
     /\ now = 1
     /\ reaperPc = "sleep"
     /\ expired_ids = <<>>
     /\ entry = None
     /\ calls = [c \in Callers |-> NoCall]
     /\ server_running = TRUE
     /\ _lock = None
     /\ _files = {}
     /\ metadata = Empty
     /\ tasks = Empty
     /\ ret = [op |-> "create_pooled_logger",
               val |-> {NewLoggerId(InitPool)}]

NextUpdate ==
  \/ \E id \in Callable, d \in OptBool, w \in OptBool, i \in OptBool :
       ConfigurePoolLogger(id, d, w, i) /\ BoundedLog
  \/ \E id \in Callable, d \in OptBool, w \in OptBool, i \in OptBool :
       ApiUpdateLoggerConfig(id, d, w, i) /\ BoundedLog

SpecUpdate == InitUpdate /\ [][NextUpdate]_vars

\* set_level on the instance of every logger of the pool, with every
\* level name and both values, between updates of the gates through the
\* registry.
NextLevel ==
  \/ \E id \in Callable, l \in SetLevelNames, e \in BOOLEAN :
       SetLevel(id, l, e) /\ BoundedLog
  \/ \E id \in Callable, d \in OptBool, w \in OptBool, i \in OptBool :
       ConfigurePoolLogger(id, d, w, i) /\ BoundedLog

SpecLevel == InitUpdate /\ [][NextLevel]_vars

\* The records the callers have put or are about to put.
Started ==
  _stats.sent + _stats.failed + Cardinality(entry) + Len(log_queue)
  + Cardinality({c \in Callers :
                   calls[c].pc \in {"locked", "gate", "put", "waiting"}})

\* The levels of the concurrent calls: one the default gates close, two
\* that are always open.
CallLevels == {"debug", "error", "critical"}

\* Two callers that log at the same time on the instances of the pool,
\* step by step, and the worker that empties the queue.
BoundedCalls ==
  /\ Within(MaxIds, MaxTime, MaxPuts)
  /\ Started' <= MaxPuts

NextCalls ==
  \/ \E c \in Callers, id \in Ids, l \in CallLevels :
       CallBegin(c, id, l) /\ BoundedCalls
  \/ \E c \in Callers : CallPut(c) /\ BoundedCalls
  \/ \E c \in Callers : CallWake(c) /\ BoundedCalls
  \/ \E c \in Callers : CallRead(c) /\ BoundedCalls
  \/ \E c \in Callers : CallWrite(c) /\ BoundedCalls
  \/ WorkerGet /\ BoundedCalls
  \/ \E ok \in BOOLEAN : WorkerSend(ok) /\ BoundedCalls

SpecCalls == Init /\ [][NextCalls]_vars

\* The same with the scheduling of the threads: the worker thread runs
\* whenever it can, and so does every caller inside a call.
SpecCallsFair ==
  /\ SpecCalls
  /\ WF_vars(WorkerGet /\ BoundedCalls)
  /\ WF_vars(\E ok \in BOOLEAN : WorkerSend(ok) /\ BoundedCalls)
  /\ \A c \in Callers :
       WF_vars((CallPut(c) \/ CallWake(c) \/ CallRead(c) \/ CallWrite(c))
               /\ BoundedCalls)

\* The level of the calls on TelegramLogger itself: one that is always
\* open, so that every call comes to its queue.put.
LockLevels == {"error"}

\* Two callers in TelegramLogger's leveled methods, step by step with the
\* lock, next to the worker and to the cleanup thread, which take the same
\* lock.
BoundedLock ==
  /\ Within(MaxIds, MaxTime, MaxLockPuts)
  /\ Started' <= MaxLockPuts

NextLock ==
  \/ \E c \in Callers, l \in LockLevels :
       TelegramLogEnter(c, default_service_name, l) /\ BoundedLock
  \/ \E c \in Callers : TelegramLogLeave(c) /\ BoundedLock
  \/ \E c \in Callers : TelegramLogCall(c) /\ BoundedLock
  \/ \E c \in Callers : CallPut(c) /\ BoundedLock
  \/ \E c \in Callers : CallWake(c) /\ BoundedLock
  \/ \E c \in Callers : CallRead(c) /\ BoundedLock
  \/ \E c \in Callers : CallWrite(c) /\ BoundedLock
  \/ WorkerGet /\ BoundedLock
  \/ \E ok \in BOOLEAN : WorkerSend(ok) /\ BoundedLock
  \/ ReaperWake /\ BoundedLock
  \/ ReaperCheck /\ BoundedLock
  \/ ReaperScan /\ BoundedLock
  \/ ReaperRemove /\ BoundedLock

SpecLock == Init /\ [][NextLock]_vars

\* The same with the scheduling of the threads: a thread that can run
\* does run.
SpecLockFair ==
  /\ SpecLock
  /\ WF_vars(WorkerGet /\ BoundedLock)
  /\ WF_vars(\E ok \in BOOLEAN : WorkerSend(ok) /\ BoundedLock)
  /\ WF_vars((ReaperWake \/ ReaperCheck \/ ReaperScan \/ ReaperRemove)
             /\ BoundedLock)
  /\ \A c \in Callers :
       WF_vars((\/ TelegramLogLeave(c) \/ TelegramLogCall(c) \/ CallPut(c)
                \/ CallWake(c) \/ CallRead(c) \/ CallWrite(c))
               /\ BoundedLock)

\* The server's shutdown next to the two worker threads and a caller
\* that logs at an open level.
BoundedShutdown == Within(MaxIds, MaxTime, LogCount)

NextShutdown ==
  \/ \E id \in Ids : ServiceLog(id, "error") /\ BoundedShutdown
  \/ Shutdown /\ BoundedShutdown
  \/ WorkerGet /\ BoundedShutdown
  \/ \E ok \in BOOLEAN : WorkerSend(ok) /\ BoundedShutdown
  \/ ReaperWake /\ BoundedShutdown
  \/ ReaperCheck /\ BoundedShutdown
  \/ ReaperScan /\ BoundedShutdown
  \/ ReaperRemove /\ BoundedShutdown
  \/ Tick /\ BoundedShutdown

SpecShutdown == Init /\ [][NextShutdown]_vars

\* The operations that take an identity, on identities in the pool, on
\* identities that were removed and on one that was never handed out, with
\* the log endpoint on every level name; from the two loggers of
\* InitUpdate, one tick of the clock after their creation.
Identities == Ids \cup {nextId}

NextApi ==
  \/ \E id \in Identities : GetLogger(id) /\ BoundedLog
  \/ \E id \in Identities : GetLoggerInfo(id) /\ BoundedLog
  \/ \E id \in Identities : GetLoggerConfig(id) /\ BoundedLog
  \/ \E id \in Identities :
       ConfigurePoolLogger(id, None, None, None) /\ BoundedLog
  \/ \E id \in Identities : RemoveLogger(id) /\ BoundedLog
  \/ \E id \in Identities, l \in ApiLevelNames, m \in Messages :
       ApiLogMessage(id, l, m) /\ BoundedLog
  \/ \E id \in Identities : ApiGetLoggerInfo(id) /\ BoundedLog

SpecApi == InitUpdate /\ [][NextApi]_vars

\* The switch of the cleanup: the endpoint, the method and the status,
\* beside creation, removal and the clock.
NextTtl ==
  \/ \E s \in ServiceNames :
       CreatePooledLogger(s, FALSE, FALSE, FALSE) /\ Bounded
  \/ \E id \in Ids : RemoveLogger(id) /\ Bounded
  \/ \E e \in OptBool : ApiToggleTtlCleanup(e) /\ Bounded
  \/ \E e \in BOOLEAN : SetTtlCleanup(e) /\ Bounded
  \/ GetTtlCleanupStatus /\ Bounded
  \/ Tick /\ Bounded

SpecTtl == Init /\ [][NextTtl]_vars

\* Callers that hold the instance of a logger and log on it step by step
\* while loggers are created and removed.
NextHandle ==
  \/ \E s \in ServiceNames :
       CreatePooledLogger(s, FALSE, FALSE, FALSE) /\ BoundedCalls
  \/ \E id \in Ids : RemoveLogger(id) /\ BoundedCalls
  \/ \E c \in Callers, id \in Ids :
       CallBegin(c, id, "error") /\ BoundedCalls
  \/ \E c \in Callers : CallPut(c) /\ BoundedCalls
  \/ \E c \in Callers : CallWake(c) /\ BoundedCalls
  \/ \E c \in Callers : CallRead(c) /\ BoundedCalls
  \/ \E c \in Callers : CallWrite(c) /\ BoundedCalls
  \/ WorkerGet /\ BoundedCalls
  \/ \E ok \in BOOLEAN : WorkerSend(ok) /\ BoundedCalls

SpecHandle == Init /\ [][NextHandle]_vars

\* The pool under every way in and out of it: creation, get-or-create by
\* service name, removal and the cleanup thread, with the queries that
\* read the aliases and the size of the pool.
NextPool ==
  \/ \E s \in ServiceNames :
       CreatePooledLogger(s, FALSE, FALSE, FALSE) /\ Bounded
  \/ \E s \in ServiceNames : GetServiceLogger(s) /\ Bounded
  \/ \E id \in Ids : RemoveLogger(id) /\ Bounded
  \/ \E s \in ServiceNames : GetServiceConfig(s) /\ Bounded
  \/ ListServices /\ Bounded
  \/ GetTtlCleanupStatus /\ Bounded
  \/ GetPoolStats /\ Bounded
  \/ ReaperWake /\ Bounded
  \/ ReaperCheck /\ Bounded
  \/ ReaperScan /\ Bounded
  \/ ReaperRemove /\ Bounded
  \/ Tick /\ Bounded

SpecPool == Init /\ [][NextPool]_vars

\* The files: uploads and imports that succeed or fail, the background
\* task of every upload step by step, deletion and the readers.
FileIds == 0..(MaxFiles - 1)

BoundedFiles == Cardinality(DOMAIN metadata') <= MaxFiles

NextFiles ==
  \/ \E ok \in BOOLEAN : UploadFile(ok) /\ BoundedFiles
  \/ \E ok \in BOOLEAN : ImportFromUrl(ok) /\ BoundedFiles
  \/ \E id \in FileIds, ok \in BOOLEAN :
       ProcessUploadSave(id, ok) /\ BoundedFiles
  \/ \E id \in FileIds : ProcessUploadUpdate(id) /\ BoundedFiles
  \/ \E id \in FileIds : ProcessUploadAdd(id) /\ BoundedFiles
  \/ \E id \in FileIds : DeleteFile(id) /\ BoundedFiles
  \/ \E id \in FileIds : GetFile(id) /\ BoundedFiles
  \/ \E id \in FileIds : GetViewUrl(id) /\ BoundedFiles
  \/ \E id \in FileIds : GetDownloadUrl(id) /\ BoundedFiles

SpecFiles == Init /\ [][NextFiles]_vars

\* The direct uploads alone: registration, the background task of every
\* upload step by step, and deletion in between.
NextUpload ==
  \/ \E ok \in BOOLEAN : UploadFile(ok) /\ BoundedFiles
  \/ \E id \in FileIds, ok \in BOOLEAN :
       ProcessUploadSave(id, ok) /\ BoundedFiles
  \/ \E id \in FileIds : ProcessUploadUpdate(id) /\ BoundedFiles
  \/ \E id \in FileIds : ProcessUploadAdd(id) /\ BoundedFiles
  \/ \E id \in FileIds : DeleteFile(id) /\ BoundedFiles

SpecUpload == Init /\ [][NextUpload]_vars

\* The same with the executor's scheduling: a submitted task is run, and
\* the call of storage.save in it returns or raises.
SpecUploadFair ==
  /\ SpecUpload
  /\ \A id \in FileIds :
       WF_vars((\/ \E ok \in BOOLEAN : ProcessUploadSave(id, ok)
                \/ ProcessUploadUpdate(id)
                \/ ProcessUploadAdd(id))
               /\ BoundedFiles)

\* ------------------------------------------------------------ the claims
\* The gates of a configuration that the callers may set.
Gates(config) ==
  <<config.debug_enabled, config.warning_enabled, config.info_enabled>>

\* What PooledLogger holds besides the configuration.
Usage(id) == _pool_metadata[id]

\* Everything of the registry but the entry of id.
OthersKept(id) ==
  /\ DOMAIN _logger_pool' = DOMAIN _logger_pool
  /\ DOMAIN _pool_metadata' = DOMAIN _pool_metadata
  /\ \A j \in DOMAIN _logger_pool \ {id} :
       _logger_pool'[j] = _logger_pool[j]
  /\ \A j \in DOMAIN _pool_metadata \ {id} :
       _pool_metadata'[j] = _pool_metadata[j]
  /\ _service_to_logger_id' = _service_to_logger_id

\* C1: in every reachable state the error gate and the critical gate of
\* every logger in the pool read true, whatever gates were given to the
\* creation, to the updates and to set_level.
C1_ErrorCriticalEnabled ==
  \A id \in DOMAIN _logger_pool :
    /\ is_level_enabled(_logger_pool[id], "error")
    /\ is_level_enabled(_logger_pool[id], "critical")

\* set_level has run on a pool that holds a logger with debug, warning and
\* info all closed and one with all three open.
C1_Witness ==
  /\ ret.op = "set_level"
  /\ \E id \in DOMAIN _logger_pool :
       Gates(_logger_pool[id]) = <<FALSE, FALSE, FALSE>>
  /\ \E id \in DOMAIN _logger_pool :
       Gates(_logger_pool[id]) = <<TRUE, TRUE, TRUE>>

\* C2 as claimed: a log call at a level whose gate is off, on the instance
\* or through the log endpoint, leaves message_count and last_used of the
\* entry unchanged and adds nothing to the queue.
C2_DisabledLogChangesNothing ==
  [][\A id \in DOMAIN _logger_pool, l \in LevelNames :
       (/\ ~is_level_enabled(_logger_pool[id], l)
        /\ ServiceLog(id, l) \/ \E m \in Messages : ApiLogMessage(id, l, m))
       => /\ Usage(id)'.message_count = Usage(id).message_count
          /\ Usage(id)'.last_used = Usage(id).last_used
          /\ log_queue' = log_queue]_vars

\* C2 as amended: the leveled method of the instance changes nothing of
\* the registry nor of the queue, and neither does the log endpoint when
\* the message is empty; with a message the log endpoint leaves
\* message_count and the queue unchanged as well, but its lookup of the
\* instance sets last_used of the entry to the current time.
C2_DisabledLogAmended ==
  [][\A id \in DOMAIN _logger_pool, l \in LevelNames :
       ~is_level_enabled(_logger_pool[id], l)
       => /\ ServiceLog(id, l)
               => UNCHANGED <<_logger_pool, _pool_metadata,
                              _service_to_logger_id, log_queue>>
          /\ ApiLogMessage(id, l, "")
               => UNCHANGED <<_logger_pool, _pool_metadata,
                              _service_to_logger_id, log_queue>>
          /\ ApiLogMessage(id, l, "x")
               => /\ Usage(id)' = [Usage(id) EXCEPT !.last_used = now]
                  /\ OthersKept(id)
                  /\ UNCHANGED <<_logger_pool, log_queue>>]_vars

\* The log endpoint has answered a call at a closed level: nothing was
\* logged and the entry's last_used moved.
C2_Witness ==
  /\ ret = [op |-> "api_log_message", val |-> {"logged"}]
  /\ log_queue = <<>>
  /\ \E id \in DOMAIN _pool_metadata :
       /\ Usage(id).message_count = 0
       /\ Usage(id).last_used > Usage(id).created_at

\* C3: one log call at a level whose gate is on, taken as one step, adds 1
\* to message_count of the entry, sets last_used to a value not below the
\* old one, and appends one record with the level and the service name of
\* the instance to the queue.
C3_EnabledLogCounts ==
  [][\A id \in DOMAIN _logger_pool, l \in LevelNames :
       (/\ is_level_enabled(_logger_pool[id], l)
        /\ ServiceLog(id, l) \/ ApiLogMessage(id, l, "x"))
       => /\ Usage(id)'.message_count = Usage(id).message_count + 1
          /\ Usage(id)'.last_used >= Usage(id).last_used
          /\ Usage(id)'.last_used = now
          /\ Usage(id)'.created_at = Usage(id).created_at
          /\ log_queue' =
               Append(log_queue,
                      [level |-> l,
                       service |-> _logger_pool[id].service_name])
          /\ OthersKept(id)
          /\ _logger_pool' = _logger_pool]_vars

\* A leveled call has been accepted after the clock moved, and its record
\* is in the queue.
C3_Witness ==
  /\ ret.op = "service_log"
  /\ Len(log_queue) = 1
  /\ \E id \in DOMAIN _pool_metadata :
       /\ Usage(id).message_count = 1
       /\ Usage(id).last_used > Usage(id).created_at
       /\ log_queue[1].service = _logger_pool[id].service_name

\* C4 as claimed: a logger created with no gates given has info and warning
\* open and debug closed; a debug call on it enqueues nothing and changes no
\* counter, and the info call after it is enqueued and leaves message_count
\* at 1.
C4_DefaultGatesScenario ==
  [][\A s \in ServiceNames :
       ApiCreateLogger(s, None, None, None)
       => LET A == CHOOSE id \in ret'.val : TRUE
              P1 == Pool'
              P2 == api_log_message(P1, now, A, "debug", "x")
              P3 == api_log_message(P2, now, A, "info", "x")
          IN /\ Gates(P1.pool[A]) = <<FALSE, TRUE, TRUE>>
             /\ P2.queue = P1.queue
             /\ P2.meta[A].message_count = 0
             /\ P3.queue = Append(P2.queue, LogEntry("info", s))
             /\ P3.meta[A].message_count = 1]_vars

\* C8: the configuration read back for the identity that a creation with
\* the gates (debug, warning, info) returned holds the service name, those
\* three gates, and error and critical true.
C8_CreateRoundTrip ==
  [][\A s \in ServiceNames, d \in BOOLEAN, w \in BOOLEAN, i \in BOOLEAN :
       (CreatePooledLogger(s, d, w, i) \/ ApiCreateLogger(s, {d}, {w}, {i}))
       => \A id \in ret'.val :
            get_logger_config(Pool', id) =
              {[service_name |-> s, debug_enabled |-> d,
                warning_enabled |-> w, info_enabled |-> i,
                error_enabled |-> TRUE, critical_enabled |-> TRUE]}]_vars

\* get_logger_config has returned the configuration of a logger created
\* with debug on, warning off and info on.
C8_Witness ==
  /\ ret.op = "get_logger_config"
  /\ ret.val = {[service_name |-> "svc", debug_enabled |-> TRUE,
                 warning_enabled |-> FALSE, info_enabled |-> TRUE,
                 error_enabled |-> TRUE, critical_enabled |-> TRUE]}

\* The gates after an update with the optional gates d, w, i.
\* What the two ways of updating leave in ret.
UpdateOps == {"configure_pool_logger", "api_update_logger_config"}

Updated(config, d, w, i) ==
  [config EXCEPT !.debug_enabled = Supplied(@, d),
                 !.warning_enabled = Supplied(@, w),
                 !.info_enabled = Supplied(@, i)]

\* C9 as claimed: an update on an identity in the pool, through the
\* registry or through the endpoint, sets the gates given, leaves the other
\* gates, error, critical, the service name, last_used and message_count
\* unchanged and returns the configuration; on an unknown identity it
\* returns None and changes nothing.
C9_UpdateLeavesUsage ==
  [][\A id \in Callable, d \in OptBool, w \in OptBool, i \in OptBool :
       (ret'.op \in UpdateOps
          /\ (ConfigurePoolLogger(id, d, w, i)
                \/ ApiUpdateLoggerConfig(id, d, w, i)))
       => IF id \in DOMAIN _logger_pool
            THEN /\ _logger_pool'[id] = Updated(_logger_pool[id], d, w, i)
                 /\ Usage(id)' = Usage(id)
                 /\ ret'.val = {_logger_pool'[id]}
            ELSE /\ ret'.val = None
                 /\ UNCHANGED <<_logger_pool, _pool_metadata,
                                _service_to_logger_id, log_queue>>]_vars

\* The entry of id is the one the endpoint's own info message goes to, and
\* the message is let through.
EndpointLogsOn(id) ==
  /\ default_service_name \in DOMAIN _service_to_logger_id
  /\ _service_to_logger_id[default_service_name] = id
  /\ _logger_pool'[id].info_enabled

\* The part of C9 that stands: the gates given are set, the other gates,
\* error, critical and the service name are kept, the configuration is
\* returned; an unknown identity gets None and nothing changes.
UpdateSetsGates(id, d, w, i) ==
  IF id \in DOMAIN _logger_pool
    THEN /\ _logger_pool'[id] = Updated(_logger_pool[id], d, w, i)
         /\ ret'.val = {_logger_pool'[id]}
         /\ \A j \in DOMAIN _logger_pool \ {id} :
              _logger_pool'[j] = _logger_pool[j]
    ELSE /\ ret'.val = None
         /\ UNCHANGED <<_logger_pool, _pool_metadata,
                        _service_to_logger_id, log_queue>>

\* C9 as amended: the update sets the gates given, leaves the other gates,
\* error, critical and the service name unchanged and returns the
\* configuration, and on an unknown identity returns None and changes
\* nothing; the registry's update leaves last_used and message_count
\* unchanged, and so does the endpoint unless the identity is the logger of
\* the default service with info on after the update: the endpoint's own
\* info message then sets its last_used and adds 1 to its message_count.
C9_UpdateAmended ==
  [][\A id \in Callable, d \in OptBool, w \in OptBool, i \in OptBool :
       /\ (ret'.op = "configure_pool_logger"
             /\ ConfigurePoolLogger(id, d, w, i))
          => /\ UpdateSetsGates(id, d, w, i)
             /\ id \in DOMAIN _logger_pool
                => /\ Usage(id)' = Usage(id)
                   /\ OthersKept(id)
                   /\ log_queue' = log_queue
       /\ (ret'.op = "api_update_logger_config"
             /\ ApiUpdateLoggerConfig(id, d, w, i))
          => /\ UpdateSetsGates(id, d, w, i)
             /\ id \in DOMAIN _logger_pool
                => Usage(id)' =
                     IF EndpointLogsOn(id)
                       THEN [Usage(id) EXCEPT !.last_used = now,
                                              !.message_count = @ + 1]
                       ELSE Usage(id)]_vars

\* The endpoint has updated the logger of the default service, turning
\* info on and leaving debug off, and its own message was counted.
C9_Witness ==
  /\ ret.op = "api_update_logger_config"
  /\ ret.val = {_logger_pool[0]}
  /\ Gates(_logger_pool[0]) = <<FALSE, FALSE, TRUE>>
  /\ Usage(0).message_count = 1

\* The identities handed out that are no longer in the pool: removed by
\* remove_logger or by the sweep.
Removed == {r \in 0..(nextId - 1) : r \notin DOMAIN _logger_pool}

\* C5: an identity that was removed is never in the pool again: get_logger,
\* get_logger_config and the log endpoint answer not-found for it, no
\* service name maps to it, and get_service_logger returns another
\* identity, also for the service names that pointed at it.
C5_RemovedStaysRemoved ==
  [][\A r \in Removed :
       /\ r \notin DOMAIN _logger_pool'
       /\ r \notin DOMAIN _pool_metadata'
       /\ \A s \in DOMAIN _service_to_logger_id' :
            _service_to_logger_id'[s] # r
       /\ (ret'.op = "get_logger" /\ GetLogger(r)) => ret'.val = None
       /\ (ret'.op = "get_logger_config" /\ GetLoggerConfig(r))
          => ret'.val = None
       /\ (ret'.op = "api_log_message" /\ ApiLogMessage(r, "debug", "x"))
          => ret'.val = {"Logger not found"}
       /\ \A s \in ServiceNames :
            /\ (ret'.op = "get_service_logger" /\ GetServiceLogger(s))
               => r \notin ret'.val
            /\ (ret'.op = "api_create_logger"
                  /\ ApiCreateLogger(s, None, None, None))
               => r \notin ret'.val]_vars

\* The logger of the default service was removed, and get_service_logger
\* has made a new one for the same service name.
C5_Witness ==
  /\ ret = [op |-> "get_service_logger", val |-> {1}]
  /\ 0 \in Removed
  /\ _service_to_logger_id[default_service_name] = 1

\* The steps of the cleanup thread, told by the variables it alone writes.
SweepSkips == reaperPc = "check" /\ reaperPc' # "check" /\ ~enable_ttl_cleanup

SweepScans == reaperPc = "scan" /\ reaperPc' # "scan"

SweepRemoves == reaperPc = "remove" /\ expired_ids' # expired_ids

SweepEnds == reaperPc = "remove" /\ reaperPc' # "remove"

Idle(id) == now - _pool_metadata[id].last_used

\* C6: a sweep that finds the cleanup disabled goes back to sleep and
\* removes no entry, whatever the idle times.
C6_DisabledSweepRemovesNothing ==
  [][SweepSkips
       => /\ reaperPc' = "sleep"
          /\ UNCHANGED <<_logger_pool, _pool_metadata,
                         _service_to_logger_id, expired_ids>>]_vars

\* The cleanup thread is at its test of the flag, the cleanup is disabled
\* and an entry is idle for longer than ttl_seconds.
C6_Witness ==
  /\ reaperPc = "check"
  /\ ~enable_ttl_cleanup
  /\ \E id \in DOMAIN _pool_metadata : Idle(id) > ttl_seconds

\* C7: a sweep with the cleanup enabled lists the entries idle for longer
\* than ttl_seconds at the scan and no others, so that an entry idle for
\* exactly ttl_seconds is not listed; each turn of its loop removes the
\* listed identity and keeps every other entry; and it ends only when the
\* list is done.
C7_SweepRemovesTheExpired ==
  [][/\ SweepScans
          => /\ {expired_ids'[k] : k \in 1..Len(expired_ids')} =
                  {id \in DOMAIN _pool_metadata : Idle(id) > ttl_seconds}
             /\ UNCHANGED <<_logger_pool, _pool_metadata,
                            _service_to_logger_id>>
     /\ SweepRemoves
          => /\ expired_ids # <<>>
             /\ expired_ids' = Tail(expired_ids)
             /\ DOMAIN _logger_pool' =
                  DOMAIN _logger_pool \ {Head(expired_ids)}
             /\ DOMAIN _pool_metadata' =
                  DOMAIN _pool_metadata \ {Head(expired_ids)}
             /\ \A j \in DOMAIN _logger_pool' :
                  /\ _logger_pool'[j] = _logger_pool[j]
                  /\ _pool_metadata'[j] = _pool_metadata[j]
     /\ SweepEnds => expired_ids = <<>>]_vars

\* The scan has listed an entry, and an entry that is idle for exactly
\* ttl_seconds is in the pool and not listed.
C7_Witness ==
  /\ reaperPc = "remove"
  /\ expired_ids # <<>>
  /\ \E id \in DOMAIN _pool_metadata :
       /\ Idle(id) = ttl_seconds
       /\ \A k \in 1..Len(expired_ids) : expired_ids[k] # id

\* C10: remove_logger returns true exactly when the identity is in the
\* pool; it then takes the identity out of both maps and deletes the
\* service names that map to it, and leaves every other entry and every
\* other service name unchanged; for an identity not in the pool it changes
\* nothing.
C10_RemoveLogger ==
  [][\A id \in Ids :
       (ret'.op = "remove_logger" /\ RemoveLogger(id))
       => /\ ret'.val = {id \in DOMAIN _logger_pool}
          /\ IF id \in DOMAIN _logger_pool
               THEN /\ DOMAIN _logger_pool' = DOMAIN _logger_pool \ {id}
                    /\ DOMAIN _pool_metadata' = DOMAIN _pool_metadata \ {id}
                    /\ \A j \in DOMAIN _logger_pool' :
                         /\ _logger_pool'[j] = _logger_pool[j]
                         /\ _pool_metadata'[j] = _pool_metadata[j]
                    /\ DOMAIN _service_to_logger_id' =
                         {s \in DOMAIN _service_to_logger_id :
                            _service_to_logger_id[s] # id}
                    /\ \A s \in DOMAIN _service_to_logger_id' :
                         _service_to_logger_id'[s] = _service_to_logger_id[s]
               ELSE UNCHANGED <<_logger_pool, _pool_metadata,
                                _service_to_logger_id>>
          /\ UNCHANGED <<log_queue, nextId>>]_vars

\* remove_logger has returned true for a logger that had a service name,
\* and the other logger and its service name are still there.
C10_Witness ==
  /\ ret = [op |-> "remove_logger", val |-> {TRUE}]
  /\ Removed # {}
  /\ DOMAIN _service_to_logger_id # {}
  /\ DOMAIN _service_to_logger_id # ServiceNames
  /\ \A s \in DOMAIN _service_to_logger_id :
       _service_to_logger_id[s] \in DOMAIN _logger_pool

\* C11: get_service_logger on a service name that has an identity returns
\* it and changes nothing of the registry nor of the queue; on a name that
\* has none it makes one entry and points the name at it; and no step
\* points a name that keeps its identity at another one, so that calls with
\* the same name and no removal between them all return one identity.
C11_GetOrCreateByLabel ==
  [][/\ \A s \in ServiceNames :
          (ret'.op = "get_service_logger" /\ GetServiceLogger(s))
          => IF s \in DOMAIN _service_to_logger_id
               THEN /\ ret'.val = {_service_to_logger_id[s]}
                    /\ UNCHANGED <<_logger_pool, _pool_metadata,
                                   _service_to_logger_id, log_queue, nextId>>
               ELSE \E id \in ret'.val :
                      /\ ret'.val = {id}
                      /\ id \notin DOMAIN _logger_pool
                      /\ DOMAIN _logger_pool' = DOMAIN _logger_pool \cup {id}
                      /\ DOMAIN _pool_metadata' =
                           DOMAIN _pool_metadata \cup {id}
                      /\ \A j \in DOMAIN _logger_pool :
                           /\ _logger_pool'[j] = _logger_pool[j]
                           /\ _pool_metadata'[j] = _pool_metadata[j]
                      /\ _logger_pool'[id].service_name = s
                      /\ _service_to_logger_id' =
                           Put(_service_to_logger_id, s, id)
                      /\ log_queue' = log_queue
     /\ \A s \in DOMAIN _service_to_logger_id :
          s \in DOMAIN _service_to_logger_id'
          => _service_to_logger_id'[s] = _service_to_logger_id[s]]_vars

\* get_service_logger has returned the identity the default service had
\* from the start, in a pool where it has made a logger for "svc".
C11_Witness ==
  /\ ret = [op |-> "get_service_logger", val |-> {0}]
  /\ "svc" \in DOMAIN _service_to_logger_id
  /\ _service_to_logger_id[default_service_name] = 0

\* What the two ways of creating leave in ret.
CreateOps == {"create_pooled_logger", "api_create_logger"}

\* C12 as claimed: right after a creation for a service name has returned
\* the identity i, the service name maps to i, and get_service_logger on it
\* returns i and creates nothing.
C12_CreateRecordsAlias ==
  [][\A s \in ServiceNames :
       (ret'.op \in CreateOps
          /\ (CreatePooledLogger(s, FALSE, FALSE, FALSE)
                \/ ApiCreateLogger(s, None, None, None)))
       => \A i \in ret'.val :
            /\ s \in DOMAIN _service_to_logger_id'
            /\ _service_to_logger_id'[s] = i
            /\ get_service_logger_result(Pool', s) = i
            /\ get_service_logger(Pool', now, s) = Pool']_vars

\* C12 as amended: a creation puts the new identity i, with created_at and
\* last_used at the current time and message_count 0, into the pool and
\* into the metadata and points no service name at it: every service name
\* that had an identity keeps it, so get_service_logger on the service name
\* returns an identity other than i.
C12_CreateAmended ==
  [][\A s \in ServiceNames :
       (ret'.op \in CreateOps
          /\ (CreatePooledLogger(s, FALSE, FALSE, FALSE)
                \/ ApiCreateLogger(s, None, None, None)))
       => \A i \in ret'.val :
            /\ i \notin DOMAIN _logger_pool
            /\ i \in DOMAIN _logger_pool'
            /\ _logger_pool'[i].service_name = s
            /\ _pool_metadata'[i] = PooledLogger(now)
            /\ \A n \in DOMAIN _service_to_logger_id' :
                 _service_to_logger_id'[n] # i
            /\ \A n \in DOMAIN _service_to_logger_id :
                 /\ n \in DOMAIN _service_to_logger_id'
                 /\ _service_to_logger_id'[n] = _service_to_logger_id[n]
            /\ get_service_logger_result(Pool', s) # i]_vars

\* A logger was created for "svc", and "svc" maps to no identity.
C12_Witness ==
  /\ ret.op \in CreateOps
  /\ \E i \in ret.val :
       /\ i \in DOMAIN _logger_pool
       /\ _logger_pool[i].service_name = "svc"
  /\ "svc" \notin DOMAIN _service_to_logger_id

\* What the read-only queries leave in ret.
QueryOps == {"get_logger_info", "get_logger_config", "get_all_loggers_info",
             "get_pool_stats", "get_ttl_cleanup_status"}

\* C13: get_logger on an identity in the pool sets last_used of its entry
\* to the current time and changes nothing else of the registry nor of the
\* queue; get_logger_info, get_logger_config, get_all_loggers_info,
\* get_pool_stats and get_ttl_cleanup_status change no entry.
C13_LookupTouchesQueriesDoNot ==
  [][/\ \A id \in DOMAIN _logger_pool :
          (ret'.op = "get_logger" /\ GetLogger(id))
          => /\ _pool_metadata'[id] =
                  [_pool_metadata[id] EXCEPT !.last_used = now]
             /\ OthersKept(id)
             /\ UNCHANGED <<_logger_pool, log_queue>>
     /\ (/\ ret'.op \in QueryOps
         /\ \/ \E id \in Ids : GetLoggerInfo(id) \/ GetLoggerConfig(id)
            \/ GetAllLoggersInfo
            \/ GetPoolStats
            \/ GetTtlCleanupStatus)
        => UNCHANGED <<_logger_pool, _pool_metadata,
                       _service_to_logger_id, log_queue>>]_vars

\* get_logger has found a logger after the clock moved: its last_used is
\* the current time and above its created_at.
C13_Witness ==
  /\ ret.op = "get_logger"
  /\ \E id \in ret.val :
       /\ id \in DOMAIN _pool_metadata
       /\ Usage(id).last_used = now
       /\ Usage(id).last_used > Usage(id).created_at

\* C14: in every reachable state last_used of every entry is at or above
\* its created_at, and no step changes the created_at of an entry that
\* stays in the pool.
C14_CreatedAtFixed ==
  /\ [](\A id \in DOMAIN _pool_metadata :
          Usage(id).last_used >= Usage(id).created_at)
  /\ [][\A id \in DOMAIN _pool_metadata :
          id \in DOMAIN _pool_metadata'
          => Usage(id)'.created_at = Usage(id).created_at]_vars

\* A logger created after the clock moved was looked up later still.
C14_Witness ==
  \E id \in DOMAIN _pool_metadata :
    /\ Usage(id).created_at > 0
    /\ Usage(id).last_used > Usage(id).created_at

\* C15: message_count of a pool entry never decreases, also when several
\* callers log on the same instance at the same time: no step takes the
\* counter of an entry that stays in the pool below its value.
C15_CountNeverDecreases ==
  [][\A id \in DOMAIN _pool_metadata :
       id \in DOMAIN _pool_metadata'
       => Usage(id)'.message_count >= Usage(id).message_count]_vars

\* C16: a log call at an enabled level that reaches its put with the queue
\* full returns at once: the record is dropped, failed goes up by one and
\* the queue is as it was.
C16_FullQueueDrops ==
  [][\A c \in Callers :
       (/\ calls[c].pc = "put"
        /\ Len(log_queue) = maxsize
        /\ calls'[c] # calls[c])
       => /\ calls'[c] = NoCall
          /\ _stats'.failed = _stats.failed + 1
          /\ _stats'.sent = _stats.sent
          /\ log_queue' = log_queue]_vars

C18_OneCountPerRecord ==
  /\ [](_stats.sent + _stats.failed + Cardinality(entry) + Len(log_queue)
          = Accepted(_pool_metadata))
  /\ [][/\ (entry # None /\ entry' # entry)
           => /\ entry' = None
              /\ log_queue' = log_queue
              /\ \/ /\ _stats'.sent = _stats.sent + 1
                    /\ _stats'.failed = _stats.failed
                 \/ /\ _stats'.failed = _stats.failed + 1
                    /\ _stats'.sent = _stats.sent
        /\ (entry = None /\ entry' # entry)
           => /\ log_queue # <<>>
              /\ entry' = {Head(log_queue)}
              /\ log_queue' = Tail(log_queue)
        /\ (entry = None \/ entry' = entry) => _stats' = _stats]_vars

\* A record's delivery failed, and it is neither queued nor in the
\* worker's hands.
C18_Witness ==
  /\ _stats.failed = 1
  /\ _stats.sent = 0
  /\ log_queue = <<>>
  /\ entry = None

\* C19: the records reach the transport in the order of the puts: a step
\* changes the queue only by a caller's record going to its tail or by the
\* worker taking its head, and the worker holds one record at a time, the
\* one it took, until its attempt is over.
C19_FifoToTransport ==
  [][/\ log_queue' # log_queue
        => \/ /\ \E c \in Callers :
                   /\ calls[c].pc \in {"put", "waiting"}
                   /\ log_queue' =
                        Append(log_queue,
                               LogEntry(calls[c].level, calls[c].service))
              /\ entry' = entry
           \/ /\ log_queue # <<>>
              /\ log_queue' = Tail(log_queue)
              /\ entry = None
              /\ entry' = {Head(log_queue)}
     /\ entry' # entry
        => \/ /\ entry = None
              /\ log_queue # <<>>
              /\ entry' = {Head(log_queue)}
           \/ /\ entry # None
              /\ entry' = None
              /\ log_queue' = log_queue]_vars

\* The worker holds the older of two different records, the newer is
\* still queued.
C19_Witness ==
  /\ entry # None
  /\ log_queue # <<>>
  /\ Head(log_queue) \notin entry

\* C20: once the server's shutdown has run, the flag the two worker
\* threads read is down, the sender takes no further record off the queue
\* (the delivery in its hands may end) and the sleeping reaper starts no
\* further sweep.
C20_ShutdownStopsWorkers ==
  /\ [](~server_running => ~running)
  /\ [][~server_running
        => /\ entry = None => entry' = None
           /\ reaperPc = "sleep" => reaperPc' # "check"]_vars

\* What a call on an identity that is not in the pool must leave alone.
NotFoundKept ==
  UNCHANGED <<_logger_pool, _pool_metadata, _service_to_logger_id,
              log_queue, _stats>>

\* The registry's five methods on an identity that is not in the pool:
\* the result says so and nothing changes.
RegistryNotFound(id) ==
  /\ (ret'.op = "get_logger" /\ GetLogger(id))
     => (ret'.val = None /\ NotFoundKept)
  /\ (ret'.op = "get_logger_info" /\ GetLoggerInfo(id))
     => (ret'.val = None /\ NotFoundKept)
  /\ (ret'.op = "get_logger_config" /\ GetLoggerConfig(id))
     => (ret'.val = None /\ NotFoundKept)
  /\ (/\ ret'.op = "configure_pool_logger"
      /\ \E d, w, i \in OptBool : ConfigurePoolLogger(id, d, w, i))
     => (ret'.val = None /\ NotFoundKept)
  /\ (ret'.op = "remove_logger" /\ RemoveLogger(id))
     => (ret'.val = {FALSE} /\ NotFoundKept)

\* C21: every operation that takes an identity answers not-found for an
\* identity that is not in the pool and leaves the entries, the aliases,
\* the queue and the counters as they were; the log endpoint does so for
\* every level and every message.
C21_UnknownIdentity ==
  [][\A id \in Identities :
       id \notin DOMAIN _logger_pool
       => /\ RegistryNotFound(id)
          /\ \A l \in ApiLevelNames, m \in Messages :
               (ret'.op = "api_log_message" /\ ApiLogMessage(id, l, m))
               => (ret'.val = {"Logger not found"} /\ NotFoundKept)]_vars

\* C21, as the code has it: the log endpoint validates the message and the
\* level before it looks the identity up, so it answers not-found for a
\* message that is not empty and a level that is one of the five, and one
\* of its two validation answers otherwise; nothing changes in any case.
C21_UnknownIdentityAmended ==
  [][\A id \in Identities :
       id \notin DOMAIN _logger_pool
       => /\ RegistryNotFound(id)
          /\ \A l \in ApiLevelNames, m \in Messages :
               (ret'.op = "api_log_message" /\ ApiLogMessage(id, l, m))
               => /\ NotFoundKept
                  /\ (m # "" /\ lower(l) \in LevelNames)
                     => ret'.val = {"Logger not found"}
                  /\ (m = "" \/ lower(l) \notin LevelNames)
                     => ret'.val \subseteq {"Message required",
                                            "Invalid log level"}]_vars

\* The log endpoint has answered not-found for a removed identity.
C21_Witness ==
  /\ ret.op = "api_log_message"
  /\ ret.val = {"Logger not found"}
  /\ nextId > Cardinality(DOMAIN _logger_pool)

\* C22: the log endpoint with a level name outside the five answers
\* invalid-level and does nothing: no entry, no alias and nothing of the
\* queue changes.
C22_InvalidLevel ==
  [][\A id \in Identities, l \in ApiLevelNames \ LevelNames, m \in Messages :
       (ret'.op = "api_log_message" /\ ApiLogMessage(id, l, m))
       => (ret'.val = {"Invalid log level"} /\ NotFoundKept)]_vars

\* C22, as the code has it: the name is lower-cased before it is compared,
\* and the empty message is refused first; a name whose lower-case form is
\* outside the five, with a message that is not empty, is answered with
\* invalid-level and nothing changes.
C22_InvalidLevelAmended ==
  [][\A id \in Identities, l \in ApiLevelNames, m \in Messages :
       (/\ lower(l) \notin LevelNames
        /\ m # ""
        /\ ret'.op = "api_log_message"
        /\ ApiLogMessage(id, l, m))
       => (ret'.val = {"Invalid log level"} /\ NotFoundKept)]_vars

\* Invalid-level was the answer while no logger had been removed and no
\* entry had been used at the current time.
C22_Witness ==
  /\ ret.op = "api_log_message"
  /\ ret.val = {"Invalid log level"}
  /\ Removed = {}
  /\ \A id \in DOMAIN _pool_metadata : Usage(id).last_used < now

\* What get_ttl_cleanup_status reports as enabled after the step.
StatusAfter == get_ttl_cleanup_status(Pool', enable_ttl_cleanup').enabled

\* C23: the toggle endpoint without a value flips the switch, with a value
\* it sets the switch to it, and it answers with the new state;
\* set_ttl_cleanup sets the switch to its argument and returns it; the
\* status read afterwards reports the state that was returned.
C23_ToggleTtl ==
  [][/\ \A e \in OptBool :
          (ret'.op = "api_toggle_ttl_cleanup" /\ ApiToggleTtlCleanup(e))
          => /\ e = None => enable_ttl_cleanup' = ~enable_ttl_cleanup
             /\ \A b \in e : enable_ttl_cleanup' = b
             /\ ret'.val = {enable_ttl_cleanup'}
             /\ StatusAfter \in ret'.val
     /\ \A b \in BOOLEAN :
          (ret'.op = "set_ttl_cleanup" /\ SetTtlCleanup(b))
          => /\ enable_ttl_cleanup' = b
             /\ ret'.val = {b}
             /\ StatusAfter = b
     /\ (ret'.op = "get_ttl_cleanup_status" /\ GetTtlCleanupStatus)
        => \A st \in ret'.val : st.enabled = enable_ttl_cleanup]_vars

\* The toggle endpoint has answered with "disabled", and the switch is off.
C23_Witness ==
  /\ ret.op = "api_toggle_ttl_cleanup"
  /\ ret.val = {FALSE}
  /\ ~enable_ttl_cleanup

\* C24: get_logger_info on an identity in the pool returns the snapshot of
\* its entry, and so does the endpoint GET /api/logger/<id>, with status
\* 200 and never an error.
C24_InfoSnapshot ==
  [][\A id \in DOMAIN _pool_metadata :
       /\ (ret'.op = "get_logger_info" /\ GetLoggerInfo(id))
          => ret'.val = {to_dict(Pool, now, id)}
       /\ (ret'.op = "api_get_logger_info" /\ ApiGetLoggerInfo(id))
          => /\ ret'.val.status = 200
             /\ ret'.val.body = to_dict(Pool, now, id)]_vars

\* C25: the cleanup thread removes an entry only if the entry is idle for
\* longer than ttl_seconds when it is removed: an entry that was looked up
\* after the scan listed it is kept.
C25_RemovesOnlyTheIdle ==
  [][\A id \in DOMAIN _pool_metadata :
       (SweepRemoves /\ id \notin DOMAIN _pool_metadata')
       => Idle(id) > ttl_seconds]_vars

\* C26: while the cleanup is disabled the cleanup thread removes no entry,
\* also when its sweep had passed the test of the flag, or had listed the
\* expired identities, before the cleanup was disabled.
C26_DisabledStopsSweep ==
  [][(SweepRemoves /\ ~enable_ttl_cleanup)
       => /\ DOMAIN _logger_pool' = DOMAIN _logger_pool
          /\ DOMAIN _pool_metadata' = DOMAIN _pool_metadata]_vars

\* C27: no record goes on the queue for a logger that is not in the pool
\* when it is put: a call on an instance obtained before the removal puts
\* nothing.
C27_NoEnqueueForRemoved ==
  [][\A c \in Callers :
       (calls[c].pc \in {"put", "waiting"} /\ calls'[c].pc = "read")
       => calls[c].logger_id \in DOMAIN _logger_pool]_vars

\* C28: no usage update is lost: when every call has returned, the
\* message_count of the entries adds up to the number of records that the
\* accepted calls have put.
C28_NoLostUpdate ==
  (\A c \in Callers : calls[c] = NoCall)
  => Accepted(_pool_metadata) = Started

\* C29: every service name maps to an identity that is in both maps, so
\* get_service_config and list_services find the entry they read; and no
\* step points a service name at another identity: a removal deletes the
\* names of the logger it removes.
C29_AliasesLive ==
  /\ [](\A s \in DOMAIN _service_to_logger_id :
          /\ _service_to_logger_id[s] \in DOMAIN _logger_pool
          /\ _service_to_logger_id[s] \in DOMAIN _pool_metadata)
  /\ [][/\ \A s \in DOMAIN _service_to_logger_id :
             s \in DOMAIN _service_to_logger_id'
             => _service_to_logger_id'[s] = _service_to_logger_id[s]
        /\ \A s \in DOMAIN _service_to_logger_id :
             (ret'.op = "get_service_config" /\ GetServiceConfig(s))
             => ret'.val = {_logger_pool[_service_to_logger_id[s]]}]_vars

\* A service name has lost its logger while another logger of the same
\* service name is in the pool.
C29_Witness ==
  \E s \in ServiceNames :
    /\ s \notin DOMAIN _service_to_logger_id
    /\ \E id \in DOMAIN _logger_pool : _logger_pool[id].service_name = s
    /\ Removed # {}

\* C30: the two maps hold the same identities in every reachable state,
\* and the pool_size of get_ttl_cleanup_status and of get_pool_stats is
\* the number of those identities.
C30_MapsAgree ==
  /\ [](DOMAIN _logger_pool = DOMAIN _pool_metadata)
  /\ [][/\ (ret'.op = "get_ttl_cleanup_status" /\ GetTtlCleanupStatus)
           => \A st \in ret'.val :
                st.pool_size = Cardinality(DOMAIN _pool_metadata)
        /\ (ret'.op = "get_pool_stats" /\ GetPoolStats)
           => \A st \in ret'.val :
                st.pool_size = Cardinality(DOMAIN _pool_metadata)]_vars

\* The status was read after the cleanup thread had emptied the pool.
C30_Witness ==
  /\ ret.op = "get_ttl_cleanup_status"
  /\ \E st \in ret.val : st.pool_size = 0
  /\ reaperPc = "remove"
  /\ nextId > 0


\* The configuration after set_level(level, enabled) as the claim has it:
\* the named gate of debug, info and warning set, and nothing else.
SetLevelGate(config, level, enabled) ==
  CASE level = "debug" -> [config EXCEPT !.debug_enabled = enabled]
    [] level = "info" -> [config EXCEPT !.info_enabled = enabled]
    [] level = "warning" -> [config EXCEPT !.warning_enabled = enabled]
    [] OTHER -> config

\* C33: set_level(level, enabled) on the instance of a logger sets the gate
\* named by level when level is debug, info or warning, and leaves the
\* other gates as they were; for error, critical and a name that is no
\* level the configuration is unchanged.  No other entry, no usage, no
\* alias and no queued record is touched.
C33_SetLevelFrame ==
  [][\A id \in DOMAIN _logger_pool, l \in SetLevelNames, e \in BOOLEAN :
       (ret'.op = "set_level" /\ SetLevel(id, l, e))
       => /\ _logger_pool'[id] = SetLevelGate(_logger_pool[id], l, e)
          /\ l \in {"error", "critical", "trace"}
               => _logger_pool'[id] = _logger_pool[id]
          /\ OthersKept(id)
          /\ _pool_metadata' = _pool_metadata
          /\ log_queue' = log_queue]_vars

\* set_level has opened the info gate of a logger whose warning gate stays
\* closed, next to a logger with the gates the other way round.
C33_Witness ==
  /\ ret.op = "set_level"
  /\ \E id \in DOMAIN _logger_pool :
       Gates(_logger_pool[id]) = <<FALSE, FALSE, TRUE>>
  /\ \E id \in DOMAIN _logger_pool :
       Gates(_logger_pool[id]) = <<FALSE, TRUE, FALSE>>

\* The records that have left the queue and have been counted.
Counted == _stats.sent + _stats.failed

\* C31: with the worker running, the n-th record accepted into the queue
\* is in the end counted in sent or failed, for every n; and the step that
\* counts a failed delivery leaves the worker running and the records
\* queued behind it where they are, so that the worker takes them next.
C31_EveryRecordCounted ==
  /\ \A n \in 1..MaxPuts :
       (running /\ Counted + Cardinality(entry) + Len(log_queue) >= n)
         ~> (Counted >= n)
  /\ [][(entry # None /\ _stats'.failed = _stats.failed + 1)
          => /\ running' = running
             /\ entry' = None
             /\ log_queue' = log_queue]_vars

\* After a failed delivery the worker holds the next record, and another
\* one waits behind it.
C31_Witness ==
  /\ _stats.failed >= 1
  /\ entry # None
  /\ log_queue # <<>>

\* C32: no caller is at its queue.put, waiting for room or not, while it
\* holds the registry lock; and nothing is stuck: the worker that holds a
\* record takes the lock and counts it, the cleanup
\* thread that has come to its scan takes the lock and scans, and every
\* caller leaves its call, with the queue full as with room in it.
C32_NoDeadlock ==
  /\ [](\A c \in Callers :
          calls[c].pc \in {"put", "waiting"} => _lock # {c})
  /\ (entry # None) ~> (entry = None)
  /\ (reaperPc = "scan") ~> (reaperPc = "remove")
  /\ \A c \in Callers : (calls[c].pc # "idle") ~> (calls[c].pc = "idle")

\* The queue is full, one caller waits for room in it and the other holds
\* the lock, while the cleanup thread has come to its scan.
C32_Witness ==
  /\ Len(log_queue) = maxsize
  /\ \E c \in Callers : calls[c].pc = "waiting"
  /\ \E c \in Callers : _lock = {c}
  /\ reaperPc = "scan"

\* C34: a record that delete_file has taken out of the repository stays
\* out: a file id that has a record object and is not in the repository is
\* not in it after any step, so get_file keeps returning None for it.
C34_DeletedStaysDeleted ==
  [][\A id \in DOMAIN metadata : id \notin _files => id \notin _files']_vars

\* The answer of the url endpoint that has just returned.
Answer == CHOOSE a \in ret.val : TRUE

\* The record has what the storage returned for it.
Stored(m) ==
  /\ m.telegram_file_id # None
  /\ m.download_url # None
  /\ m.view_url # None

\* C36: in every state a record whose status is COMPLETED has its
\* telegram_file_id, its download_url and its view_url set, in the
\* repository or out of it, while its upload writes it field by field as
\* before and after; and the view-url and the download-url endpoint answer
\* 200 with the url of the record, which is set, exactly for a record of
\* the repository whose status is COMPLETED, 202 ("not ready") exactly for
\* one with another status, and 404 without a record.
C36_CompletedIsStored ==
  /\ [](\A id \in DOMAIN metadata :
          metadata[id].status = FileStatus.COMPLETED => Stored(metadata[id]))
  /\ [][\A id \in FileIds :
          (/\ ret'.op \in {"get_view_url", "get_download_url"}
           /\ GetViewUrl(id) \/ GetDownloadUrl(id))
          => LET field == IF ret'.op = "get_view_url" THEN "view_url"
                                                     ELSE "download_url"
             IN /\ Answer'.status = 200
                    <=> /\ id \in _files
                        /\ metadata[id].status = FileStatus.COMPLETED
                /\ Answer'.status = 202
                    <=> /\ id \in _files
                        /\ metadata[id].status \in
                             {FileStatus.PROCESSING, FileStatus.PENDING,
                              FileStatus.FAILED}
                /\ Answer'.status = 404 <=> id \notin _files
                /\ Answer'.status = 200
                    => /\ Answer'.body = <<field, metadata[id][field]>>
                       /\ metadata[id][field] # None]_vars

\* The view-url endpoint has answered "not ready" for a record that its
\* upload is writing: the storage identifier and the urls are on it, the
\* status is still PROCESSING.
C36_Witness ==
  /\ ret.op = "get_view_url"
  /\ Answer.status = 202
  /\ \E id \in _files :
       /\ Stored(metadata[id])
       /\ metadata[id].status = FileStatus.PROCESSING
       /\ Answer.body = <<"File not ready", FileStatus.PROCESSING>>

\* COMPLETED and FAILED.
Terminal == {FileStatus.COMPLETED, FileStatus.FAILED}

\* C35: upload_file registers the record of a direct upload in the
\* repository with the status PROCESSING; after that the status changes
\* only from PROCESSING, to COMPLETED when storage.save has returned and to
\* FAILED when it has raised, so that it changes once and COMPLETED and
\* FAILED are final; and every registered upload comes to one of the two.
C35_StatusMachine ==
  /\ [][\A id \in DOMAIN tasks' :
          IF id \notin DOMAIN tasks
            THEN /\ metadata'[id].status = FileStatus.PROCESSING
                 /\ id \in _files'
            ELSE metadata'[id].status # metadata[id].status
                 => /\ metadata[id].status = FileStatus.PROCESSING
                    /\ metadata'[id].status =
                         IF tasks[id].saved THEN FileStatus.COMPLETED
                                            ELSE FileStatus.FAILED]_vars
  /\ \A id \in FileIds :
       (id \in DOMAIN tasks)
         ~> (id \in DOMAIN tasks /\ metadata[id].status \in Terminal)

\* One upload has come to COMPLETED and another to FAILED, and both tasks
\* have run to their end.
C35_Witness ==
  /\ \E id \in DOMAIN tasks :
       /\ tasks[id].pc = "done"
       /\ tasks[id].saved
       /\ metadata[id].status = FileStatus.COMPLETED
  /\ \E id \in DOMAIN tasks :
       /\ tasks[id].pc = "done"
       /\ ~tasks[id].saved
       /\ metadata[id].status = FileStatus.FAILED
=============================================================================
